---- MODULE Spec2Model ----
(***************************************************************************)
(* Model of the pmod row table engine (src/src/param/file.rs): the param   *)
(* file header, its lookup table (LUT) with the embedded free list, the    *)
(* row descriptors, and the copy-reallocation that rebuilds them.          *)
(*                                                                         *)
(* Number representation.  TLC integers are 32-bit, so                     *)
(*   - an i32 is itself;                                                   *)
(*   - a u32 is represented by its two's-complement bit pattern read as an *)
(*     i32 (u32::MAX is -1) and compared with ULess, the unsigned order;   *)
(*   - a usize/u64 address or offset wraps modulo USIZE_MOD.               *)
(***************************************************************************)
EXTENDS Integers, Sequences, FiniteSets, TLC

VARIABLES file, last, ops, handed, deleted, fillers, srw, threads, table, manager

vars == <<file, last, ops, handed, deleted, fillers, srw, threads, table, manager>>

\* The state of the repositories' locks and of the threads calling them,
\* which the single-caller specifications leave alone, and the message
\* manager's file capacity with the category of the file under call, which
\* no call changes.
lockvars == <<srw, threads, table, manager>>

NoThreads == srw = <<>> /\ threads = <<>> /\ table = <<>>

NoManager == manager = <<>>

(* ------------------------------ bounds --------------------------------- *)

\* Largest number of rows of a table handed over by the game.
MaxRows == 3

\* Largest number of table-modifying operations in one behaviour.
MaxOps == 3

(* ------------------------- program constants --------------------------- *)

I32_MAX == 2147483647

U32_MAX == -1

\* mem::size_of::<FileHeader>()
HEADER_SIZE == 64

\* mem::size_of::<RowDescriptor24>()
DESC24_SIZE == 24

\* mem::size_of::<RowDescriptor12>()
DESC12_SIZE == 12

\* mem::size_of::<LutEntry>()
LUT_ENTRY_SIZE == 8

\* The smallest capacity a growing reallocation asks for.
MIN_GROW_LEN == 32

MAX_ROW_COUNT == (I32_MAX - HEADER_SIZE) \div DESC24_SIZE

\* Width of the modelled address space (usize arithmetic wraps).
USIZE_MOD == 2 ^ 16

(* --------------------------- integer helpers --------------------------- *)

\* Binary NOT of an i32.
Not(a) == (-1) - a

\* a < b for two u32 values given by their bit patterns.
ULess(a, b) == IF (a >= 0) = (b >= 0) THEN a < b ELSE a >= 0

\* u32::saturating_add applied k >= 0 times with 1, on bit patterns.
SaturatingAdd(a, k) ==
    IF a < 0 THEN (IF a + k >= 0 THEN U32_MAX ELSE a + k)
    ELSE IF a <= I32_MAX - k THEN a + k
    ELSE ((a - I32_MAX) - 1) + k + ((-I32_MAX) - 1)

Max(a, b) == IF a >= b THEN a ELSE b

Min(a, b) == IF a <= b THEN a ELSE b

\* usize::wrapping_sub / wrapping_byte_add
WrappingSub(a, b) == (a - b) % USIZE_MOD

WrappingAdd(a, b) == (a + b) % USIZE_MOD

\* offset.wrapping_add(15) & usize::wrapping_neg(16)
Align16(n) == ((n + 15) \div 16) * 16

Ok(v) == [ok |-> TRUE, val |-> v, err |-> "None"]

Err(e) == [ok |-> FALSE, val |-> 0, err |-> e]

ZeroEntry == [id |-> 0, index |-> 0]

ZeroDescriptor == [id |-> 0, data_offset |-> 0]

(* ------------------------------ FileHeader ----------------------------- *)
(* A table is the record                                                   *)
(*   layout_flags, format_flags : the header bytes that decide the mode    *)
(*   base        : the address of the header (file_base)                   *)
(*   size        : the i32 stored 16 bytes before the header               *)
(*   count       : the i32 stored 12 bytes before the header               *)
(*   lut_at      : byte offset from base at which lutmem[1] lies           *)
(*   lutmem      : the LutEntry cells from lut_at on (the cells past the   *)
(*                 allocation, if any were modelled, come last)            *)
(*   desc_at, desc_stride : where and how wide the descriptors were laid   *)
(*   desc        : the descriptor cells                                    *)
(*   oob         : what a descriptor read outside desc yields              *)
(***************************************************************************)

is_64bit(t) == (t.format_flags \div 2) % 2 = 1

is_large_mode(t) ==
    is_64bit(t) /\ (t.layout_flags % 128 = 4 \/ t.layout_flags = 133)

row_descriptor_offset(t) ==
    LET k == t.layout_flags % 128 IN
    IF k = 2 THEN Ok(48)
    ELSE IF k \in {3, 4, 5} THEN Ok(64)
    ELSE Err("Malformed")

\* Number of LutEntry cells between lut_at and the place raw_lut reads from.
LutShift(t) == (Align16(t.size) - t.lut_at) \div LUT_ENTRY_SIZE

\* The slice raw_lut returns: count entries from the 16-aligned stored size.
raw_lut(t) ==
    IF t.size >= 0
    THEN [i \in 1..Max(t.count, 0) |-> t.lutmem[i + LutShift(t)]]
    ELSE <<>>

\* Writing the slice back through lut_mut.
StoreLut(t, lut) ==
    [t EXCEPT !.lutmem =
        [i \in DOMAIN t.lutmem |->
            IF (i - LutShift(t)) \in 1..Len(lut)
            THEN lut[i - LutShift(t)] ELSE t.lutmem[i]]]

has_sentinel(lut) == Len(lut) > 0 /\ lut[Len(lut)].id = U32_MAX

\* row_count(): the stored count as usize, Malformed when negative.
row_count(t) == IF t.count >= 0 THEN Ok(t.count) ELSE Err("Malformed")

\* The descriptor the code reads at `index` with base offset `off` and the
\* stride of the table's mode.
ReadRowDescriptor(t, off, index) ==
    LET stride == IF is_large_mode(t) THEN DESC24_SIZE ELSE DESC12_SIZE IN
    IF off = t.desc_at /\ stride = t.desc_stride /\ index < Len(t.desc)
    THEN t.desc[index + 1] ELSE t.oob

\* The descriptor cell *large_descriptor_base().add(index).
LargeDescriptor(t, index) ==
    IF t.desc_at = HEADER_SIZE /\ t.desc_stride = DESC24_SIZE /\ index < Len(t.desc)
    THEN t.desc[index + 1] ELSE t.oob

WriteLargeDescriptor(t, index, d) ==
    IF t.desc_at = HEADER_SIZE /\ t.desc_stride = DESC24_SIZE /\ index < Len(t.desc)
    THEN [t EXCEPT !.desc[index + 1] = d] ELSE [t EXCEPT !.oob = d]

\* NonNull::new(file_base.wrapping_byte_add(offset)).ok_or(Malformed)
ResolvePointer(t, offset) ==
    LET p == WrappingAdd(t.base, offset) IN
    IF p = 0 THEN Err("Malformed") ELSE Ok(p)

(* --------------------------- LUT search -------------------------------- *)

RECURSIVE BinarySearchLoop(_, _, _, _)
BinarySearchLoop(lut, id, base, size) ==
    IF size > 1
    THEN LET half == size \div 2
             mid == base + half
         IN BinarySearchLoop(lut, id,
                IF ULess(id, lut[mid + 1].id) THEN base ELSE mid, size - half)
    ELSE base

\* lut.binary_search_by_key(&id, |e| e.id), then lut.get(index): the 0-based
\* position of the entry found.
find_lut_entry(lut, id) ==
    IF Len(lut) = 0 THEN Err("NotInTable")
    ELSE LET b == BinarySearchLoop(lut, id, 0, Len(lut)) IN
         IF lut[b + 1].id = id THEN Ok(b) ELSE Err("NotInTable")

descriptor_index_by_id(t, id) ==
    LET lut == raw_lut(t)
        e == find_lut_entry(lut, id)
    IN IF ~e.ok THEN Err("NotInTable")
       ELSE LET index == lut[e.val + 1].index IN
            IF index < 0 THEN Err("Malformed")
            ELSE IF index > Len(lut) THEN Err("NotInTable")
            ELSE Ok(index)

find_row(t, id) ==
    IF id < 0 THEN Err("NegativeId")
    ELSE LET r == descriptor_index_by_id(t, id) IN
         IF ~r.ok THEN r
         ELSE LET off == row_descriptor_offset(t) IN
              IF ~off.ok THEN off
              ELSE LET d == ReadRowDescriptor(t, off.val, r.val) IN
                   IF d.id = id THEN ResolvePointer(t, d.data_offset)
                   ELSE Err("NotInTable")

(* ------------------------------ free list ------------------------------ *)

\* pop_free_lut_entry writing the popped index to the first entry of the
\* slice instead of the popped one.
pop_free_lut_entry_first(lut) ==
    IF ~has_sentinel(lut) THEN [res |-> Err("NeedsRealloc"), lut |-> lut]
    ELSE LET n == Len(lut)
             head == lut[n].index
         IN IF head < 0 \/ head >= n - 1
            THEN [res |-> Err("NotInTable"), lut |-> lut]
            ELSE LET not_next_index == lut[head + 1].index IN
                 [res |-> Ok(head),
                  lut |-> [lut EXCEPT ![1].index = head,
                                      ![n].index = Not(not_next_index)]]

\* Both return the outcome and the slice as they leave it.
pop_free_lut_entry(lut) ==
    IF ~has_sentinel(lut) THEN [res |-> Err("NeedsRealloc"), lut |-> lut]
    ELSE LET n == Len(lut)
             head == lut[n].index
         IN IF head < 0 \/ head >= n - 1
            THEN [res |-> Err("NotInTable"), lut |-> lut]
            ELSE LET not_next_index == lut[head + 1].index IN
                 [res |-> Ok(head),
                  lut |-> [lut EXCEPT ![head + 1].index = head,
                                      ![n].index = Not(not_next_index)]]

push_free_lut_entry(lut, index) ==
    IF ~has_sentinel(lut) THEN [res |-> Err("NeedsRealloc"), lut |-> lut]
    ELSE LET n == Len(lut) IN
         IF index >= n - 1 THEN [res |-> Err("NotInTable"), lut |-> lut]
         ELSE LET next_index == lut[n].index
                  free_index == lut[index + 1].index
              IN [res |-> IF free_index < 0 THEN Err("Malformed") ELSE Ok(free_index),
                  lut |-> [lut EXCEPT ![n].index = index,
                                      ![index + 1].index = Not(next_index)]]

(* ---------------------------- row operations --------------------------- *)
(* Each returns the Result and the table as the call leaves it.            *)

insert_row(t, data) ==
    IF ~is_large_mode(t) THEN [res |-> Err("NeedsRealloc"), file |-> t]
    ELSE LET p == pop_free_lut_entry(raw_lut(t))
             t1 == StoreLut(t, p.lut)
         IN IF ~p.res.ok THEN [res |-> p.res, file |-> t]
            ELSE LET entry == p.lut[p.res.val + 1] IN
                 IF entry.id < 0 \/ entry.index < 0
                 THEN [res |-> Err("Malformed"), file |-> t1]
                 ELSE LET data_offset == WrappingSub(data, t.base)
                          index == entry.index
                          descriptor == LargeDescriptor(t1, index)
                      IN IF descriptor.id = entry.id
                         THEN [res |-> Ok(entry.id),
                               file |-> WriteLargeDescriptor(t1, index,
                                   [descriptor EXCEPT !.data_offset = data_offset])]
                         ELSE [res |-> Err("Malformed"), file |-> t1]

\* replace_row with the large-mode check left out.
replace_row_unchecked(t, id, data) ==
    IF id < 0 THEN [res |-> Err("NegativeId"), file |-> t]
    ELSE LET r == descriptor_index_by_id(t, id) IN
         IF ~r.ok THEN [res |-> r, file |-> t]
         ELSE LET data_offset == WrappingSub(data, t.base)
                  descriptor == LargeDescriptor(t, r.val)
              IN [res |-> ResolvePointer(t, descriptor.data_offset),
                  file |-> WriteLargeDescriptor(t, r.val,
                      [descriptor EXCEPT !.data_offset = data_offset])]

replace_row(t, id, data) ==
    IF ~is_large_mode(t) THEN [res |-> Err("NeedsRealloc"), file |-> t]
    ELSE IF id < 0 THEN [res |-> Err("NegativeId"), file |-> t]
    ELSE LET r == descriptor_index_by_id(t, id) IN
         IF ~r.ok THEN [res |-> r, file |-> t]
         ELSE LET data_offset == WrappingSub(data, t.base)
                  descriptor == LargeDescriptor(t, r.val)
              IN [res |-> ResolvePointer(t, descriptor.data_offset),
                  file |-> WriteLargeDescriptor(t, r.val,
                      [descriptor EXCEPT !.data_offset = data_offset])]

delete_row(t, id) ==
    IF ~is_large_mode(t) THEN [res |-> Err("NeedsRealloc"), file |-> t]
    ELSE IF id < 0 THEN [res |-> Err("NegativeId"), file |-> t]
    ELSE LET r == descriptor_index_by_id(t, id) IN
         IF ~r.ok THEN [res |-> r, file |-> t]
         ELSE LET p == push_free_lut_entry(raw_lut(t), r.val)
                  t1 == StoreLut(t, p.lut)
              IN IF ~p.res.ok THEN [res |-> p.res, file |-> t1]
                 ELSE [res |-> ResolvePointer(t1,
                                   LargeDescriptor(t1, p.res.val).data_offset),
                       file |-> t1]

(* --------------------------- clone_reallocate -------------------------- *)
(* The loop state: prev_id, inserted, not_inserted, free_index, and the    *)
(* entries and descriptors the two iterators have written so far.          *)

\* The loop `while not_inserted != 0 && prev_id.saturating_add(1) < entry.id`.
\* Its k-th iteration runs when k <= not_inserted and prev_id + k < entry.id
\* (no addition wraps, the guard keeps prev_id + k below entry.id), so it
\* runs n times. Iteration k writes the filler id prev_id + k with the link
\* !free_index, where free_index is the one the loop starts with for k = 1
\* and the position of the filler before (inserted + k - 2) afterwards.
FillGap(acc, entry_id) ==
    LET n == Cardinality({k \in 1..acc.not_inserted :
                            ULess(SaturatingAdd(acc.prev_id, k), entry_id)})
        id(k) == SaturatingAdd(acc.prev_id, k)
        link(k) == IF k = 1 THEN acc.free_index ELSE acc.inserted + k - 2
    IN IF n = 0 THEN acc
       ELSE [prev_id |-> id(n),
             lut |-> acc.lut \o [k \in 1..n |-> [id |-> id(k), index |-> Not(link(k))]],
             desc |-> acc.desc \o [k \in 1..n |-> [id |-> id(k), data_offset |-> 0]],
             free_index |-> acc.inserted + n - 1,
             inserted |-> acc.inserted + n,
             not_inserted |-> acc.not_inserted - n]

\* One iteration of `for entry in &self.lut()[..old_len]`.
CloneEntry(t, off, new_base, acc, entry) ==
    IF entry.id = acc.prev_id \/ entry.index < 0 \/ entry.index >= MAX_ROW_COUNT
    THEN acc
    ELSE LET a == FillGap(acc, entry.id)
             data_offset ==
                 WrappingSub(
                     WrappingAdd(t.base,
                         ReadRowDescriptor(t, off, entry.index).data_offset),
                     new_base)
         IN [a EXCEPT !.lut = Append(a.lut, [id |-> entry.id, index |-> a.inserted]),
                      !.desc = Append(a.desc,
                                   [id |-> entry.id, data_offset |-> data_offset]),
                      !.prev_id = entry.id,
                      !.inserted = a.inserted + 1]

\* The iterations of `for entry in &self.lut()[..old_len]` for the entries
\* lo..hi of lut, in order. The range is halved and the first half is
\* evaluated (its count of written entries never falls) before the second is
\* entered, which keeps the evaluation shallow.
RECURSIVE CloneLoop(_, _, _, _, _, _, _)
CloneLoop(t, off, new_base, lut, lo, hi, acc) ==
    IF lo > hi THEN acc
    ELSE IF lo = hi THEN CloneEntry(t, off, new_base, acc, lut[lo])
    ELSE LET mid == (lo + hi) \div 2
             first == CloneLoop(t, off, new_base, lut, lo, mid, acc)
         IN IF first.inserted >= acc.inserted
            THEN CloneLoop(t, off, new_base, lut, mid + 1, hi, first)
            ELSE first

\* The loop variables before the first iteration.
CloneStart(not_inserted) ==
    [prev_id |-> U32_MAX, lut |-> <<>>, desc |-> <<>>,
     free_index |-> I32_MAX, inserted |-> 0, not_inserted |-> not_inserted]

\* The number of source entries walked: the row count less the sentinel.
OldLen(t) ==
    LET has_extra == IF has_sentinel(raw_lut(t)) THEN 1 ELSE 0
        rc == row_count(t)
    IN Min((IF rc.ok THEN rc.val ELSE 0) - has_extra, MAX_ROW_COUNT)

\* The new length: Ord::clamp(old_len, len, MAX_ROW_COUNT).
NewLen(old_len, grow) ==
    IF grow THEN Max(old_len * 2, MIN_GROW_LEN) ELSE old_len

\* The final write of the sentinel: patch the last entry raw_lut shows when
\* it already is the sentinel, else write the iterator's next cell.
WriteSentinel(nf, inserted, free_index) ==
    LET lut == raw_lut(nf) IN
    IF has_sentinel(lut)
    THEN StoreLut(nf, [lut EXCEPT ![Len(lut)].index = free_index])
    ELSE [nf EXCEPT !.lutmem[inserted + 1] = [id |-> U32_MAX, index |-> free_index]]

\* The row count the new file stores 12 bytes before its header.
StoredCount(inserted, not_inserted) == inserted - not_inserted + 1

\* clone_reallocate(grow) of t, the allocator answering with new_base (0 for
\* null); past is what lies behind the allocation, oob what a descriptor
\* read outside it yields.
clone_reallocate(t, grow, new_base, past, oob) ==
    LET lut == raw_lut(t)
        old_len == OldLen(t)
        len == NewLen(old_len, grow)
        off == row_descriptor_offset(t)
    IN IF len > MAX_ROW_COUNT THEN [res |-> Err("Panic"), file |-> t]
       ELSE IF ~off.ok THEN [res |-> off, file |-> t]
       ELSE IF new_base = 0 THEN [res |-> Err("FailedRealloc"), file |-> t]
       ELSE
       LET new_len == len
           new_size == HEADER_SIZE + new_len * DESC24_SIZE
           acc == CloneLoop(t, off.val, new_base, SubSeq(lut, 1, old_len), 1,
                      old_len, CloneStart(new_len - old_len))
           nf == [layout_flags |-> 133, format_flags |-> 3,
                  base |-> new_base,
                  size |-> new_size,
                  count |-> StoredCount(acc.inserted, acc.not_inserted),
                  lut_at |-> new_size,
                  lutmem |-> [i \in 1..(new_len + 2) |->
                                 IF i <= Len(acc.lut) THEN acc.lut[i]
                                 ELSE IF i <= new_len + 1 THEN ZeroEntry
                                 ELSE past],
                  desc_at |-> HEADER_SIZE, desc_stride |-> DESC24_SIZE,
                  desc |-> [i \in 1..new_len |->
                               IF i <= Len(acc.desc) THEN acc.desc[i]
                               ELSE ZeroDescriptor],
                  oob |-> oob]
       IN [res |-> Ok(new_size),
           file |-> WriteSentinel(nf, acc.inserted, acc.free_index)]

(* ------------------------------ the system ----------------------------- *)
(* `file` is the table a ParamResCap holds; every action is one call on it *)
(* and `last` records the call, its result and the table it was made on.   *)
(* handed, deleted and fillers are history: the ids insert_row returned    *)
(* and delete_row has not removed since, the ids delete_row removed and    *)
(* insert_row has not returned since, and the filler ids of the latest     *)
(* reallocation that insert_row has not returned yet.                      *)

\* The ids the game's tables draw their rows from, and the ids callers ask for.
IdPool == {0, 1, 20, 40}

ProbeIds == IdPool \cup {-1} \cup handed \cup deleted

\* Data pointers callers pass in.
DataPtrs == {1000, 2000}

\* Addresses of the game's table and of the allocator's buffers.
GameBase == 2 ^ 12

NewBases == {8192, 12288}

\* (layout_flags, format_flags) of the tables the game loads.
GameLayouts == {<<2, 0>>, <<3, 1>>, <<133, 3>>}

\* What memory outside an allocation may hold.
PastCells == {ZeroEntry, [id |-> U32_MAX, index |-> 0]}

OobDescriptors == {[id |-> 1, data_offset |-> 8]}

SortedSeq(S) ==
    CHOOSE q \in [1..Cardinality(S) -> S] :
        \A i, j \in 1..Cardinality(S) : i < j => q[i] < q[j]

\* A table as the game lays it out: descriptors in id order, each with its
\* row data inside the file, and a LUT sorted by id.
GameTable(ids, lf, ff, oob) ==
    LET n == Len(ids)
        hdr == [layout_flags |-> lf, format_flags |-> ff]
        stride == IF is_large_mode(hdr) THEN DESC24_SIZE ELSE DESC12_SIZE
        at == row_descriptor_offset(hdr).val
        size == at + n * stride
    IN [layout_flags |-> lf, format_flags |-> ff,
        base |-> GameBase, size |-> size, count |-> n,
        lut_at |-> Align16(size),
        lutmem |-> [i \in 1..n |-> [id |-> ids[i], index |-> i - 1]],
        desc_at |-> at, desc_stride |-> stride,
        desc |-> [i \in 1..n |-> [id |-> ids[i], data_offset |-> 1024 + 32 * i]],
        oob |-> oob]

NoCall(t) ==
    [op |-> "none", id |-> 0, data |-> 0, grow |-> FALSE, res |-> Ok(0), before |-> t]

\* The number of repository calls that change the table in a behaviour.
MaxCalls == 1

\* A call that leaves the table as it was changes nothing but `last`, so the
\* calls that can follow it are those that can be made in its place: the
\* model makes them there, and a behaviour ends with such a call.
CanCall == last.op = "none" \/ last.before # file

Init ==
    /\ \E S \in SUBSET IdPool, l \in GameLayouts, oob \in OobDescriptors :
          /\ Cardinality(S) <= MaxRows
          /\ file = GameTable(SortedSeq(S), l[1], l[2], oob)
    /\ last = NoCall(file)
    /\ ops = 0
    /\ handed = {}
    /\ deleted = {}
    /\ fillers = {}
    /\ NoThreads
    /\ NoManager

\* ops counts the calls that changed the table.
Counted(t) ==
    /\ CanCall
    /\ t # file => ops < MaxOps
    /\ ops' = IF t # file THEN ops + 1 ELSE ops

FindRow ==
    \E id \in ProbeIds :
        /\ CanCall
        /\ last' = [op |-> "find_row", id |-> id, data |-> 0, grow |-> FALSE,
                    res |-> find_row(file, id), before |-> file]
        /\ UNCHANGED <<file, ops, handed, deleted, fillers>>
        /\ UNCHANGED lockvars

InsertRow ==
    \E data \in DataPtrs :
        LET r == insert_row(file, data) IN
        /\ Counted(r.file)
        /\ file' = r.file
        /\ last' = [op |-> "insert_row", id |-> 0, data |-> data, grow |-> FALSE,
                    res |-> r.res, before |-> file]
        /\ handed' = IF r.res.ok THEN handed \cup {r.res.val} ELSE handed
        /\ deleted' = IF r.res.ok THEN deleted \ {r.res.val} ELSE deleted
        /\ fillers' = IF r.res.ok THEN fillers \ {r.res.val} ELSE fillers
        /\ UNCHANGED lockvars

ReplaceRow ==
    \E id \in ProbeIds, data \in DataPtrs :
        LET r == replace_row(file, id, data) IN
        /\ Counted(r.file)
        /\ file' = r.file
        /\ last' = [op |-> "replace_row", id |-> id, data |-> data, grow |-> FALSE,
                    res |-> r.res, before |-> file]
        /\ UNCHANGED <<handed, deleted, fillers>>
        /\ UNCHANGED lockvars

DeleteRow ==
    \E id \in ProbeIds :
        LET r == delete_row(file, id) IN
        /\ Counted(r.file)
        /\ file' = r.file
        /\ last' = [op |-> "delete_row", id |-> id, data |-> 0, grow |-> FALSE,
                    res |-> r.res, before |-> file]
        /\ handed' = IF r.res.ok THEN handed \ {id} ELSE handed
        /\ deleted' = IF r.res.ok THEN deleted \cup {id} ELSE deleted
        /\ UNCHANGED fillers
        /\ UNCHANGED lockvars

\* The filler ids a reallocation wrote: the entries it threaded on the free list.
FillerIds(t) ==
    {t.lutmem[i].id : i \in {j \in DOMAIN t.lutmem :
                                 j <= Len(t.desc) /\ t.lutmem[j].index < 0}}

\* The cell past the allocation is read only when the new LUT is misaligned.
PastCellsFor(t, grow) ==
    IF NewLen(OldLen(t), grow) % 2 = 1 THEN PastCells ELSE {ZeroEntry}

CloneReallocate ==
    \E grow \in BOOLEAN, new_base \in (NewBases \ {file.base}) \cup {0} :
      /\ CanCall
      /\ ops < MaxOps \/ new_base = 0
      /\ \E past \in PastCellsFor(file, grow), oob \in OobDescriptors :
            LET r == clone_reallocate(file, grow, new_base, past, oob) IN
            /\ Counted(r.file)
            /\ file' = r.file
            /\ last' = [op |-> "clone_reallocate", id |-> 0, data |-> 0,
                        grow |-> grow, res |-> r.res, before |-> file]
            /\ fillers' = IF r.res.ok THEN FillerIds(r.file) ELSE fillers
            /\ UNCHANGED <<handed, deleted>>
            /\ UNCHANGED lockvars

Next == FindRow \/ InsertRow \/ ReplaceRow \/ DeleteRow \/ CloneReallocate

Spec == Init /\ [][Next]_vars

(* ------------------------- notions the claims use ---------------------- *)

\* A table insert_row and delete_row can work on: large mode, sentinel last.
CapacityBearing(t) == is_large_mode(t) /\ has_sentinel(raw_lut(t))

\* A table that came out of clone_reallocate.
Reallocated(t) == t.base \in NewBases

SortedLut(lut) ==
    \A i, j \in 1..Len(lut) : i < j => ULess(lut[i].id, lut[j].id)

\* The 0-based positions met by following the free list from the sentinel,
\* in order; the walk stops at a position outside the slots or met before.
RECURSIVE FreeWalkFrom(_, _, _)
FreeWalkFrom(lut, head, path) ==
    IF head < 0 \/ head >= Len(lut) - 1 THEN [path |-> path, cycle |-> FALSE]
    ELSE IF \E k \in 1..Len(path) : path[k] = head THEN [path |-> path, cycle |-> TRUE]
    ELSE FreeWalkFrom(lut, Not(lut[head + 1].index), Append(path, head))

FreeWalk(t) ==
    LET lut == raw_lut(t) IN
    IF has_sentinel(lut) THEN FreeWalkFrom(lut, lut[Len(lut)].index, <<>>)
    ELSE [path |-> <<>>, cycle |-> FALSE]

\* The ids whose slots are free by the history of the calls.
FreeIds == fillers \cup deleted

\* The 0-based positions of the LUT slots (the sentinel apart) that are free.
FreeSlots(t) ==
    LET lut == raw_lut(t) IN
    {p \in 0..(Len(lut) - 1) : lut[p + 1].id # U32_MAX /\ lut[p + 1].id \in FreeIds}

Range(q) == {q[k] : k \in 1..Len(q)}

\* The non-negative ids the LUT of t lists.
ListedIds(t) == {e.id : e \in Range(raw_lut(t))} \ {U32_MAX}

\* n successive insert_row calls: whether all return Ok with distinct ids.
RECURSIVE InsertMany(_, _, _, _)
InsertMany(t, data, n, ids) ==
    IF n = 0 THEN TRUE
    ELSE LET r == insert_row(t, data) IN
         /\ r.res.ok
         /\ r.res.val \notin ids
         /\ InsertMany(r.file, data, n - 1, ids \cup {r.res.val})

(* ================================ claims =============================== *)

\* C1: on a capacity-bearing table, right after insert_row(data) returned
\* Ok(id) find_row(id) returns exactly data, and right after
\* replace_row(id, data) returned Ok find_row(id) returns exactly data.
C1_RoundTrip ==
    /\ (last.op = "insert_row" /\ last.res.ok /\ CapacityBearing(last.before))
          => find_row(file, last.res.val) = Ok(last.data)
    /\ (last.op = "replace_row" /\ last.res.ok /\ CapacityBearing(last.before))
          => find_row(file, last.id) = Ok(last.data)

\* C2: every id find_row succeeds for on a source table with a sorted LUT is
\* found, with the same absolute data pointer, on the table clone_reallocate
\* returned for it (grow true or false).
C2_NoLiveRowLost ==
    (last.op = "clone_reallocate" /\ last.res.ok /\ SortedLut(raw_lut(last.before)))
        => \A id \in ListedIds(last.before) :
               (id >= 0 /\ find_row(last.before, id).ok)
                   => find_row(file, id) = find_row(last.before, id)

\* C3: from a table with zero rows that is not in large mode,
\* clone_reallocate(grow = true) returns a table of capacity 32 with all 32
\* slots on the free list, and the next 32 insert_row calls each return Ok
\* with pairwise distinct ids.
C3_EmptyTableGrowsTo32 ==
    (/\ last.op = "clone_reallocate" /\ last.grow /\ last.res.ok
     /\ ~is_large_mode(last.before) /\ Len(raw_lut(last.before)) = 0)
        => /\ Len(raw_lut(file)) = MIN_GROW_LEN + 1
           /\ Len(FreeWalk(file).path) = MIN_GROW_LEN
           /\ \A data \in DataPtrs : InsertMany(file, data, MIN_GROW_LEN, {})

\* C4: the table a successful clone_reallocate(grow = true) returned has a
\* non-empty free list, and the next insert_row on it returns Ok.
C4_GrowthYieldsFreeCapacity ==
    (last.op = "clone_reallocate" /\ last.grow /\ last.res.ok)
        => /\ Len(FreeWalk(file).path) > 0
           /\ \A data \in DataPtrs : insert_row(file, data).res.ok

\* C5: every table clone_reallocate returned is in large mode and the last
\* entry of the LUT later operations read is the sentinel, whose index is the
\* head of the new free list.
C5_ReallocatedIsCapacityBearing ==
    (last.op = "clone_reallocate" /\ last.res.ok)
        => /\ CapacityBearing(file)
           /\ Range(FreeWalk(file).path) = FreeSlots(file)

\* C6: in every state reached from a table clone_reallocate returned,
\* following the links from the sentinel visits each free slot exactly once
\* and ends, and meets no occupied slot.
C6_FreeListInvariant ==
    Reallocated(file)
        => /\ ~FreeWalk(file).cycle
           /\ Range(FreeWalk(file).path) = FreeSlots(file)

\* C7: on a capacity-bearing table whose free list is empty, insert_row
\* returns NeedsRealloc and leaves the table unchanged.
C7_FullTableNeedsRealloc ==
    (/\ last.op = "insert_row" /\ CapacityBearing(last.before)
     /\ FreeWalk(last.before).path = <<>>
     /\ \A e \in Range(raw_lut(last.before)) : e.id = U32_MAX \/ e.index >= 0)
        => last.res = Err("NeedsRealloc") /\ file = last.before

\* C8: once delete_row(id) returned Ok, find_row(id) fails with NotInTable
\* until insert_row hands that id out again.
C8_DeletedIsNotInTable ==
    \A id \in deleted : find_row(file, id) = Err("NotInTable")

\* C9: find_row returns no data pointer for an id whose slot is free: not for
\* a filler id of clone_reallocate that insert_row has not handed out, and
\* not for an id delete_row removed.
C9_NoPointerForFreeSlot ==
    \A id \in FreeIds : ~find_row(file, id).ok

\* C10: on a table that is not in large mode insert_row, replace_row and
\* delete_row return NeedsRealloc and modify nothing, and find_row returns
\* the data pointer of every id the table lists.
C10_LegacyModeReadOnly ==
    /\ (last.op \in {"insert_row", "replace_row", "delete_row"}
            /\ ~is_large_mode(last.before))
          => last.res = Err("NeedsRealloc") /\ file = last.before
    /\ ~is_large_mode(file)
          => \A p \in 1..Len(raw_lut(file)) :
                find_row(file, raw_lut(file)[p].id)
                    = Ok(WrappingAdd(file.base, file.desc[p].data_offset))

\* C10 witness: delete_row has just been refused on a legacy table with rows.
C10_Witness ==
    /\ last.op = "delete_row" /\ ~is_large_mode(last.before)
    /\ last.id \in ListedIds(file)
    /\ last.res = Err("NeedsRealloc")

(* -------------------------- ParamRepository ---------------------------- *)
(* The repository calls: one attempt on the table the ParamResCap holds,   *)
(* on an error a reallocation, the swap of table.file and table.file_size, *)
(* and a second attempt. `file` is the table table.file points to; `last`  *)
(* records the call with the steps it took and the file_size stored.       *)

\* The engine operation a repository call attempts.
Attempt(op, t, id, data) ==
    CASE op = "insert_row" -> insert_row(t, data)
      [] op = "replace_row" -> replace_row(t, id, data)
      [] op = "delete_row" -> delete_row(t, id)

\* The grow argument each repository call passes to clone_reallocate.
GrowOf(op) == op # "replace_row"

\* ParamRepositoryCall with a clone_reallocate that rewrites the row count
\* in the source's header.
ParamRepositoryCallInPlace(op, t, file_size, id, data, new_base, past, oob) ==
    LET first == Attempt(op, t, id, data) IN
    IF first.res.ok
    THEN [res |-> first.res, first |-> first.res, steps |-> <<op>>,
          source |-> first.file, cloned |-> first.file,
          file |-> first.file, file_size |-> file_size]
    ELSE LET c == clone_reallocate(first.file, GrowOf(op), new_base, past, oob)
             src == [first.file EXCEPT !.count = @ + 1]
         IN
         IF ~c.res.ok
         THEN [res |-> c.res, first |-> first.res,
               steps |-> <<op, "clone_reallocate">>,
               source |-> first.file, cloned |-> first.file,
               file |-> first.file, file_size |-> file_size]
         ELSE LET second == Attempt(op, c.file, id, data) IN
              [res |-> second.res, first |-> first.res,
               steps |-> <<op, "clone_reallocate", op>>,
               source |-> src, cloned |-> c.file,
               file |-> second.file, file_size |-> c.res.val]

\* ParamRepositoryCall with a second retry when the first retry fails.
ParamRepositoryCallRetryAgain(op, t, file_size, id, data, new_base, past, oob) ==
    LET first == Attempt(op, t, id, data) IN
    IF first.res.ok
    THEN [res |-> first.res, first |-> first.res, steps |-> <<op>>,
          source |-> first.file, cloned |-> first.file,
          file |-> first.file, file_size |-> file_size]
    ELSE LET c == clone_reallocate(first.file, GrowOf(op), new_base, past, oob) IN
         IF ~c.res.ok
         THEN [res |-> c.res, first |-> first.res,
               steps |-> <<op, "clone_reallocate">>,
               source |-> first.file, cloned |-> first.file,
               file |-> first.file, file_size |-> file_size]
         ELSE LET second == Attempt(op, c.file, id, data) IN
              IF second.res.ok
              THEN [res |-> second.res, first |-> first.res,
                    steps |-> <<op, "clone_reallocate", op>>,
                    source |-> first.file, cloned |-> c.file,
                    file |-> second.file, file_size |-> c.res.val]
              ELSE LET third == Attempt(op, second.file, id, data) IN
                   [res |-> third.res, first |-> first.res,
                    steps |-> <<op, "clone_reallocate", op, op>>,
                    source |-> first.file, cloned |-> c.file,
                    file |-> third.file, file_size |-> c.res.val]

\* The rest of a call after clone_reallocate returned c: the error, or the
\* swap and the one retry on the new table.
AfterClone(op, first, c, file_size, id, data) ==
    IF ~c.res.ok
    THEN [res |-> c.res, first |-> first.res,
          steps |-> <<op, "clone_reallocate">>,
          source |-> first.file, cloned |-> first.file,
          file |-> first.file, file_size |-> file_size]
    ELSE CHOOSE r \in {[res |-> second.res, first |-> first.res,
                        steps |-> <<op, "clone_reallocate", op>>,
                        source |-> first.file, cloned |-> c.file,
                        file |-> second.file, file_size |-> c.res.val] :
                       second \in {Attempt(op, c.file, id, data)}} : TRUE

\* The rest of a call after its first attempt.
AfterFirst(op, first, file_size, id, data, new_base, past, oob) ==
    IF first.res.ok
    THEN [res |-> first.res, first |-> first.res, steps |-> <<op>>,
          source |-> first.file, cloned |-> first.file,
          file |-> first.file, file_size |-> file_size]
    ELSE CHOOSE r \in {AfterClone(op, first, c, file_size, id, data) :
                       c \in {clone_reallocate(first.file, GrowOf(op), new_base,
                                               past, oob)}} : TRUE

\* ParamRepository::insert_row / replace_row / delete_row on table t with
\* stored size file_size. source is the table at the old pointer after the
\* call, cloned the table clone_reallocate returned, file the table the
\* ParamResCap points to after the call.
ParamRepositoryCall(op, t, file_size, id, data, new_base, past, oob) ==
    CHOOSE r \in {AfterFirst(op, first, file_size, id, data, new_base, past, oob) :
                  first \in {Attempt(op, t, id, data)}} : TRUE

\* The size in bytes of a table as the game loaded it.
GameFileSize(t) == Align16(t.size) + LUT_ENTRY_SIZE * Len(t.lutmem)

\* The file is a param file, not a message file.
IsParamFile(t) == "lutmem" \in DOMAIN t

InitRepo ==
    /\ \E S \in SUBSET IdPool, l \in GameLayouts, oob \in OobDescriptors :
          /\ Cardinality(S) <= MaxRows
          /\ file = GameTable(SortedSeq(S), l[1], l[2], oob)
    /\ last = [op |-> "none", id |-> 0, data |-> 0, res |-> Ok(0), before |-> file,
               first |-> Ok(0), steps |-> <<>>, source |-> file,
               cloned |-> file, new_base |-> 0,
               file_size_before |-> GameFileSize(file),
               file_size |-> GameFileSize(file)]
    /\ ops = 0
    /\ handed = {}
    /\ deleted = {}
    /\ fillers = {}
    /\ NoThreads
    /\ NoManager

\* ParamRepository::get_row
RepoGetRow ==
    /\ IsParamFile(file)
    /\ \E id \in ProbeIds :
        /\ CanCall
        /\ last' = [op |-> "get_row", id |-> id, data |-> 0,
                    res |-> find_row(file, id), before |-> file,
                    first |-> find_row(file, id), steps |-> <<"find_row">>,
                    source |-> file, cloned |-> file, new_base |-> 0,
                    file_size_before |-> last.file_size,
                    file_size |-> last.file_size]
        /\ UNCHANGED <<file, ops, handed, deleted, fillers>>
        /\ UNCHANGED lockvars

\* What the allocator can answer a call (0 for null), and what can lie
\* behind the allocation: both matter only when the first attempt fails.
AllocAnswers(first) ==
    IF first.res.ok THEN {0} ELSE (NewBases \ {file.base}) \cup {0}

PastCellsAfter(op, first) ==
    IF first.res.ok THEN {ZeroEntry} ELSE PastCellsFor(first.file, GrowOf(op))

\* One write call of the repository, the allocator answering new_base.
RepoWrite(op, id, data) ==
    /\ IsParamFile(file)
    /\ CanCall
    /\ \E first \in {Attempt(op, file, id, data)} :
       \E new_base \in AllocAnswers(first),
          past \in PastCellsAfter(op, first), oob \in OobDescriptors :
         \E r \in {ParamRepositoryCall(op, file, last.file_size, id, data,
                                       new_base, past, oob)} :
            /\ r.file # file => ops < MaxCalls
            /\ ops' = IF r.file # file THEN ops + 1 ELSE ops
            /\ file' = r.file
            /\ last' = [op |-> op, id |-> id, data |-> data, res |-> r.res,
                        before |-> file, first |-> r.first, steps |-> r.steps,
                        source |-> r.source, cloned |-> r.cloned,
                        new_base |-> new_base,
                        file_size_before |-> last.file_size,
                        file_size |-> r.file_size]
            /\ handed' = IF op = "insert_row" /\ r.res.ok
                         THEN handed \cup {r.res.val} ELSE handed
            /\ UNCHANGED <<deleted, fillers>>
            /\ UNCHANGED lockvars

RepoInsertRow == \E data \in DataPtrs : RepoWrite("insert_row", 0, data)

RepoReplaceRow == \E id \in ProbeIds, data \in DataPtrs : RepoWrite("replace_row", id, data)

RepoDeleteRow == \E id \in ProbeIds : RepoWrite("delete_row", id, 0)

NextRepo == RepoGetRow \/ RepoInsertRow \/ RepoReplaceRow \/ RepoDeleteRow

SpecRepo == InitRepo /\ [][NextRepo]_vars

(* --------------------------- damaged sources --------------------------- *)
(* A source table whose LUT holds the same id in adjacent entries, each    *)
(* entry with a descriptor of its own.                                     *)

\* The non-decreasing id sequences of length n over IdPool.
AscendingSeqs(n) ==
    {q \in [1..n -> IdPool] : \A i \in 1..(n - 1) : q[i] <= q[i + 1]}

\* Those with at least one id repeated in adjacent entries.
DamagedSeqs ==
    UNION {{q \in AscendingSeqs(n) : \E i \in 1..(n - 1) : q[i] = q[i + 1]} :
              n \in 2..MaxRows}

InitDamaged ==
    /\ \E q \in DamagedSeqs, l \in GameLayouts, oob \in OobDescriptors :
          file = GameTable(q, l[1], l[2], oob)
    /\ last = NoCall(file)
    /\ ops = 0
    /\ handed = {}
    /\ deleted = {}
    /\ fillers = {}
    /\ NoThreads
    /\ NoManager

SpecDamaged == InitDamaged /\ [][Next]_vars

\* The ids that adjacent entries of lut share.
RepeatedIds(lut) == {lut[i].id : i \in {j \in 1..(Len(lut) - 1) : lut[j].id = lut[j + 1].id}}

\* The first position of id in lut.
FirstPosition(lut, id) ==
    CHOOSE i \in 1..Len(lut) : lut[i].id = id /\ \A j \in 1..(i - 1) : lut[j].id # id

\* The absolute pointer of the row the LUT entry at position p refers to.
EntryPointer(t, p) ==
    LET off == row_descriptor_offset(t) IN
    WrappingAdd(t.base, ReadRowDescriptor(t, off.val, raw_lut(t)[p].index).data_offset)

\* C11: the LUT a clone_reallocate of a sorted source returns is strictly
\* ascending by id with the sentinel last, and insert_row, replace_row and
\* delete_row keep a strictly ascending LUT strictly ascending.
C11_LutStaysSorted ==
    /\ (last.op = "clone_reallocate" /\ last.res.ok /\ SortedLut(raw_lut(last.before)))
          => SortedLut(raw_lut(file)) /\ has_sentinel(raw_lut(file))
    /\ (/\ last.op \in {"insert_row", "replace_row", "delete_row"}
        /\ CapacityBearing(last.before) /\ SortedLut(raw_lut(last.before)))
          => SortedLut(raw_lut(file))

\* C12: for an id that adjacent entries of the source LUT share, the table
\* clone_reallocate returns has exactly one LUT entry and one descriptor with
\* that id, and the entry leads to the data pointer of the first of them.
C12_FirstDuplicateWins ==
    (last.op = "clone_reallocate" /\ last.res.ok /\ last.before.base = GameBase)
        => \A id \in RepeatedIds(raw_lut(last.before)) :
              LET lut == raw_lut(file)
                  at == {p \in 1..Len(lut) : lut[p].id = id}
              IN /\ Cardinality(at) = 1
                 /\ Cardinality({d \in 1..(Len(lut) - 1) : file.desc[d].id = id}) = 1
                 /\ \A p \in at :
                       /\ lut[p].index \in 0..(Len(file.desc) - 1)
                       /\ EntryPointer(file, p)
                            = EntryPointer(last.before,
                                           FirstPosition(raw_lut(last.before), id))

(* --------------------------- fmg message table ------------------------- *)
(* A message file: base is the header's address, groups the memory of the  *)
(* group array from the header on (group_room of them allocated, the cells *)
(* behind them memory that is not the file's), offsets the flat array of   *)
(* Option<NonZeroU64>, 0 for None.                                         *)

\* mem::size_of::<FileHeader>() and mem::size_of::<MsgGroup>() of the fmg file.
MSG_HEADER_SIZE == 40

MSG_GROUP_SIZE == 16

\* (u32::MAX - 40) / 16
MAX_MSG_COUNT == 268435453

Some(v) == Ok(v)

None == Err("None")

\* msg_groups(): group_count groups behind the header.
msg_groups(t) == SubSeq(t.groups, 1, t.group_count)

\* data.and_then(|data| NonZeroU64::new(data - file_base))
MsgOffsetOf(t, data) == IF data = 0 THEN 0 ELSE WrappingSub(data, t.base)

\* NonNull::new(file_base.wrapping_byte_add(offset)) for a slot's content.
MsgPointer(t, offset) ==
    IF offset = 0 \/ WrappingAdd(t.base, offset) = 0 THEN None
    ELSE Some(WrappingAdd(t.base, offset))

RECURSIVE MsgIndexLoop(_, _, _, _)
MsgIndexLoop(groups, id, left, right) ==
    IF left > right THEN None
    ELSE LET mid == (left + right) \div 2
             group == groups[mid + 1]
         IN IF group.last_id < id THEN MsgIndexLoop(groups, id, mid + 1, right)
            ELSE IF group.first_id <= id
                 THEN Some(id - group.first_id + group.offset)
                 ELSE MsgIndexLoop(groups, id, left, mid - 1)

\* msg_index_by_id: indexing the empty group array panics.
msg_index_by_id(t, id) ==
    LET groups == msg_groups(t) IN
    IF t.group_count = 0 THEN Err("Panic")
    ELSE IF id < groups[1].first_id \/ id > groups[t.group_count].last_id THEN None
    ELSE MsgIndexLoop(groups, id, 0, t.group_count - 1)

msg_data_by_index(t, index) ==
    IF index >= t.msg_count THEN None
    ELSE MsgPointer(t, t.offsets[index + 1])

\* replace_msg_by_index leaving the slot as it was.
replace_msg_by_index_unwritten(t, index, data) ==
    IF index >= t.msg_count THEN [res |-> None, file |-> t]
    ELSE [res |-> MsgPointer(t, t.offsets[index + 1]), file |-> t]

\* replace_msg_by_index: the old pointer and the file with the slot rewritten.
replace_msg_by_index(t, index, data) ==
    IF index >= t.msg_count THEN [res |-> None, file |-> t]
    ELSE [res |-> MsgPointer(t, t.offsets[index + 1]),
          file |-> [t EXCEPT !.offsets[index + 1] = MsgOffsetOf(t, data)]]

\* groups.binary_search_by_key(&after, |g| g.first_id), Ok and Err alike: a
\* position holding the key when there is one (which of several is left
\* open by the library: pick says the lowest or the highest), else the
\* position the key would be inserted at.
SearchPicks == {"low", "high"}

binary_search_by_key(groups, after, pick) ==
    LET hits == {i \in 0..(Len(groups) - 1) : groups[i + 1].first_id = after}
    IN IF hits = {}
       THEN Cardinality({i \in 1..Len(groups) : groups[i].first_id < after})
       ELSE IF pick = "low" THEN CHOOSE i \in hits : \A j \in hits : i <= j
            ELSE CHOOSE i \in hits : \A j \in hits : i >= j

\* The slots of a group that try_insert_new_after walks: none when last_id
\* is below first_id or the range leaves the offsets array.
GroupSlots(t, g) ==
    IF g.last_id < g.first_id \/ g.offset + (g.last_id - g.first_id) >= t.msg_count
    THEN {}
    ELSE g.offset..(g.offset + (g.last_id - g.first_id))

\* try_insert_new_after: the first hole of the first group from the anchor's
\* position on that has one.
try_insert_new_after(t, after, data, pick) ==
    LET groups == msg_groups(t)
        index == binary_search_by_key(groups, after, pick)
        open(k) == {s \in GroupSlots(t, groups[k]) : t.offsets[s + 1] = 0}
        with == {k \in (index + 1)..Len(groups) : open(k) # {}}
    IN IF with = {} THEN [res |-> None, file |-> t]
       ELSE LET k == CHOOSE k \in with : \A j \in with : k <= j
                slot == CHOOSE s \in open(k) : \A r \in open(k) : s <= r
                id == groups[k].first_id + (slot - groups[k].offset)
            IN [res |-> IF id = 0 THEN None ELSE Some(id),
                file |-> [t EXCEPT !.offsets[slot + 1] = MsgOffsetOf(t, data)]]

\* (new_msg_count - old_msg_count).div_ceil(max_group_size)
DivCeil(a, b) == (a + b - 1) \div b

\* The gap loop in front of an old group: hole groups are written while
\* groups and messages are left to insert and ids lie between prev_last_id
\* and the group's first_id. acc.left is not_inserted_groups, a negative
\* value standing for the u32 that wrapped below zero.
RECURSIVE GrowGap(_, _, _)
GrowGap(acc, first_id, max_group_size) ==
    IF acc.left # 0 /\ acc.msgs # 0 /\ acc.prev_last_id < first_id - 1
    THEN LET msgs_to_insert ==
                 Min(Min(acc.msgs, first_id - 1 - acc.prev_last_id), max_group_size)
         IN GrowGap([groups |-> Append(acc.groups,
                                   [offset |-> acc.next_offset,
                                    first_id |-> acc.prev_last_id,
                                    last_id |-> acc.prev_last_id + msgs_to_insert - 1]),
                     left |-> acc.left - 1,
                     msgs |-> acc.msgs - msgs_to_insert,
                     prev_last_id |-> acc.prev_last_id + msgs_to_insert,
                     next_offset |-> acc.next_offset + msgs_to_insert,
                     wrapped |-> acc.wrapped],
                    first_id, max_group_size)
    ELSE acc

\* The loop over the old groups from the anchor's position on.
RECURSIVE GrowOld(_, _, _, _)
GrowOld(old_groups, k, acc, max_group_size) ==
    IF k > Len(old_groups) THEN acc
    ELSE LET group == old_groups[k]
             g == GrowGap(acc, group.first_id, max_group_size)
         IN GrowOld(old_groups, k + 1,
                    [groups |-> Append(g.groups, group),
                     left |-> g.left - 1,
                     msgs |-> g.msgs,
                     prev_last_id |-> group.last_id,
                     next_offset |-> g.next_offset,
                     wrapped |-> g.wrapped \/ g.left = 0],
                    max_group_size)

\* The loop behind the last old group.
RECURSIVE GrowTail(_, _)
GrowTail(acc, max_group_size) ==
    IF acc.left # 0 /\ acc.msgs # 0
    THEN LET msgs_to_insert == Min(acc.msgs, max_group_size)
         IN GrowTail([groups |-> Append(acc.groups,
                                    [offset |-> acc.next_offset,
                                     first_id |-> acc.prev_last_id + 1,
                                     last_id |-> acc.prev_last_id + msgs_to_insert]),
                      left |-> acc.left - 1,
                      msgs |-> acc.msgs - msgs_to_insert,
                      prev_last_id |-> acc.prev_last_id + msgs_to_insert,
                      next_offset |-> acc.next_offset + msgs_to_insert,
                      wrapped |-> acc.wrapped],
                     max_group_size)
    ELSE acc

ZeroGroup == [offset |-> 0, first_id |-> 0, last_id |-> 0]

\* What a build makes of `not_inserted_groups -= 1` at zero, and of the
\* groups written behind the allocation from then on: a panic where
\* overflow is checked, else the groups as written or other content.
PastModes == {"panic", "kept", "lost"}

\* grow_reallocate: the new file at new_base (0 when the allocator returns
\* null), None when the message count cannot grow.
grow_reallocate(t, after, new_base, pick, past) ==
    LET old_msg_count == t.msg_count
        new_msg_count == Min(2 * old_msg_count, MAX_MSG_COUNT)
        max_group_size == Max(t.max_group_size, 1)
        old_group_count == t.group_count
        new_group_count ==
            old_group_count + DivCeil(new_msg_count - old_msg_count, max_group_size)
        new_file_size == MSG_HEADER_SIZE + new_group_count * MSG_GROUP_SIZE
        old_groups == msg_groups(t)
        index == binary_search_by_key(old_groups, after, pick)
        start == [groups |-> SubSeq(old_groups, 1, index),
                  left |-> new_group_count - index,
                  msgs |-> new_msg_count - old_msg_count,
                  prev_last_id |-> IF index < Len(old_groups)
                                   THEN old_groups[index + 1].last_id ELSE after,
                  next_offset |-> old_msg_count,
                  wrapped |-> FALSE]
        acc == GrowTail(GrowOld(old_groups, index + 1, start, max_group_size),
                        max_group_size)
    IN IF new_msg_count = old_msg_count THEN [res |-> None, file |-> t]
       ELSE IF new_base = 0 THEN [res |-> None, file |-> t]
       ELSE IF acc.wrapped /\ past = "panic" THEN [res |-> Err("Panic"), file |-> t]
       ELSE [res |-> Some(new_base),
             file |-> [base |-> new_base,
                       file_size |-> new_file_size,
                       group_count |-> new_group_count - acc.left,
                       msg_count |-> new_msg_count - acc.msgs,
                       max_group_size |-> max_group_size,
                       groups |-> [i \in 1..Len(acc.groups) |->
                                     IF i > new_group_count /\ past = "lost"
                                     THEN ZeroGroup ELSE acc.groups[i]],
                       offsets |-> [i \in 1..new_msg_count |->
                                      IF i <= old_msg_count /\ t.offsets[i] # 0
                                      THEN WrappingSub(WrappingAdd(t.base, t.offsets[i]),
                                                       new_base)
                                      ELSE 0]]]

(* ----------------------------- MsgRepository --------------------------- *)

\* MsgRepository::new_after: const MAX_BASE, and one half of const MAX_DIFF
\* = u32::MAX - MAX_BASE = 3,294,967,296 (the whole is beyond the integers
\* of the checker).
MAX_BASE == 999999999

MAX_DIFF_HALF == 1647483648

\* MAX_DIFF.checked_div(file_capacity) for a capacity in 2..2^30, computed
\* on the halves: (2h) / c = 2 (h / c) + (2 (h % c)) / c.
MaxDiffDiv(file_capacity) ==
    2 * (MAX_DIFF_HALF \div file_capacity)
        + (2 * (MAX_DIFF_HALF % file_capacity)) \div file_capacity

\* MsgRepository::new_after(category) of a manager with this file capacity.
new_after(file_capacity, category) ==
    IF category >= file_capacity THEN None
    ELSE Some(MAX_BASE + MaxDiffDiv(file_capacity) * category)

\* The manager of the message specification: two categories, the file under
\* call that of category 0.
GameManager == [file_capacity |-> 2, category |-> 0]

\* The rest of insert_msg after grow_reallocate returned g: None, or the
\* swap and the one retry on the new file.
AfterGrow(first, g, anchor, data, pick) ==
    IF ~g.res.ok
    THEN [res |-> g.res, first |-> first.res,
          steps |-> <<"try_insert_new_after", "grow_reallocate">>,
          source |-> first.file, grown |-> first.file, file |-> first.file]
    ELSE CHOOSE r \in {[res |-> second.res, first |-> first.res,
                        steps |-> <<"try_insert_new_after", "grow_reallocate",
                                    "try_insert_new_after">>,
                        source |-> first.file, grown |-> g.file,
                        file |-> second.file] :
                       second \in {try_insert_new_after(g.file, anchor, data, pick)}} :
            TRUE

\* The rest of insert_msg after its first attempt.
AfterFirstMsg(first, anchor, data, new_base, pick, past) ==
    IF first.res.ok
    THEN [res |-> first.res, first |-> first.res,
          steps |-> <<"try_insert_new_after">>,
          source |-> first.file, grown |-> first.file, file |-> first.file]
    ELSE CHOOSE r \in {AfterGrow(first, g, anchor, data, pick) :
                       g \in {grow_reallocate(first.file, anchor, new_base, pick,
                                              past)}} : TRUE

\* after.or_else(|| repo.new_after(category)), 0 being None.
AnchorOf(after) ==
    IF after # 0 THEN after
    ELSE LET anchor == new_after(manager.file_capacity, manager.category)
         IN IF anchor.ok THEN anchor.val ELSE 0

\* MsgRepository::insert_msg on the file t its slot points to. source is the
\* file at the old pointer after the call, grown the file grow_reallocate
\* returned, file the one the slot points to after it.
MsgRepositoryCall(t, after, data, new_base, pick, past) ==
    IF AnchorOf(after) = 0
    THEN [res |-> None, first |-> None, steps |-> <<>>,
          source |-> t, grown |-> t, file |-> t]
    ELSE CHOOSE r \in {AfterFirstMsg(first, AnchorOf(after), data, new_base, pick,
                                     past) :
                       first \in {try_insert_new_after(t, AnchorOf(after), data,
                                                       pick)}} : TRUE

\* The bound on the groups of a file the game loads, the id ranges they are
\* drawn from, and the largest group sizes its header states.
MaxGroups == 2

MsgRanges == {<<1, 2>>, <<4, 4>>, <<6, 8>>}

MaxGroupSizes == {0, 2, 255}

MsgAnchors == {0, 1, 5, 7, 9}

MsgIds == {1, 4, 7, 9}

\* Data pointers callers pass in, 0 for None.
MsgDataPtrs == {0, 1000}

\* The ranges of S in ascending order.
RECURSIVE SortedRanges(_)
SortedRanges(S) ==
    IF S = {} THEN <<>>
    ELSE LET r == CHOOSE r \in S : \A q \in S : r[1] <= q[1]
         IN <<r>> \o SortedRanges(S \ {r})

RECURSIVE GroupsOf(_, _)
GroupsOf(ranges, offset) ==
    IF ranges = <<>> THEN <<>>
    ELSE <<[offset |-> offset, first_id |-> ranges[1][1], last_id |-> ranges[1][2]]>>
         \o GroupsOf(Tail(ranges), offset + ranges[1][2] - ranges[1][1] + 1)

\* A file as the game loads it: sorted groups with disjoint id ranges over
\* consecutive slots, the messages of the slots in live lying in the file.
GameMsgFile(ranges, live, max_group_size) ==
    LET groups == GroupsOf(ranges, 0)
        n == IF groups = <<>> THEN 0
             ELSE groups[Len(groups)].offset + groups[Len(groups)].last_id
                  - groups[Len(groups)].first_id + 1
    IN [base |-> GameBase,
        file_size |-> MSG_HEADER_SIZE + Len(groups) * MSG_GROUP_SIZE + 8 * n,
        group_count |-> Len(groups),
        msg_count |-> n,
        max_group_size |-> max_group_size,
        groups |-> groups,
        offsets |-> [i \in 1..n |-> IF i \in live THEN 256 + 2 * i ELSE 0]]

\* The slots of a file with these ranges, and the sets of live slots the
\* model starts from: at most one message, or at most one hole.
SlotsOf(ranges) == 1..Len(GameMsgFile(ranges, {}, 0).offsets)

LiveSets(ranges) ==
    {L \in SUBSET SlotsOf(ranges) :
        Cardinality(L) <= 1 \/ Cardinality(SlotsOf(ranges) \ L) <= 1}

GameMsgFiles ==
    UNION {{GameMsgFile(SortedRanges(S), live, m) :
               live \in LiveSets(SortedRanges(S)), m \in MaxGroupSizes} :
           S \in {R \in SUBSET MsgRanges : Cardinality(R) <= MaxGroups}}
    \cup {GameMsgFile(<< <<1, 10>> >>, {}, m) : m \in MaxGroupSizes}

NoMsgCall(t) ==
    [op |-> "none", id |-> 0, data |-> 0, res |-> Ok(0), before |-> t,
     first |-> Ok(0), steps |-> <<>>, source |-> t, grown |-> t, new_base |-> 0,
     file_size_before |-> 0, file_size |-> 0]

InitMsg ==
    /\ file \in GameMsgFiles
    /\ last = NoMsgCall(file)
    /\ ops = 0
    /\ handed = {}
    /\ deleted = {}
    /\ fillers = {}
    /\ NoThreads
    /\ manager = GameManager

IsMsgFile(t) == "groups" \in DOMAIN t

\* MsgRepository::get_msg on the file its slot points to.
get_msg(t, id) ==
    LET index == msg_index_by_id(t, id) IN
    IF index.ok THEN msg_data_by_index(t, index.val) ELSE index

MsgGetMsg ==
    /\ IsMsgFile(file)
    /\ CanCall
    /\ \E id \in MsgIds \cup handed :
        /\ LET res == get_msg(file, id)
           IN last' = [NoMsgCall(file) EXCEPT !.op = "get_msg", !.id = id, !.res = res,
                          !.first = res, !.steps = <<"msg_index_by_id">>]
        /\ UNCHANGED <<file, ops, handed, deleted, fillers>>
        /\ UNCHANGED lockvars

\* What the allocator can answer a call (0 for null), which position a
\* search can report and what a build can make of groups written behind the
\* allocation: each matters only when the call gets there.
MsgSearchPicks(t) ==
    IF \E i, j \in 1..t.group_count :
          i # j /\ t.groups[i].first_id = t.groups[j].first_id
    THEN SearchPicks ELSE {"low"}

MsgAllocAnswers(first) ==
    IF first.res.ok THEN {0} ELSE (NewBases \ {file.base}) \cup {0}

MsgPastModes(g) ==
    IF g.res.ok /\ Len(g.file.groups) > (g.file.file_size - MSG_HEADER_SIZE) \div MSG_GROUP_SIZE
    THEN PastModes ELSE {"kept"}

\* MsgRepository::insert_msg, the allocator answering new_base.
MsgInsertMsg ==
    /\ IsMsgFile(file)
    /\ CanCall
    /\ \E after \in MsgAnchors, data \in MsgDataPtrs, pick \in MsgSearchPicks(file) :
       \E first \in {try_insert_new_after(file, AnchorOf(after), data, pick)} :
       \E new_base \in MsgAllocAnswers(first) :
       \E g \in {grow_reallocate(file, AnchorOf(after), new_base, pick, "kept")} :
       \E past \in MsgPastModes(g) :
       \E r \in {MsgRepositoryCall(file, after, data, new_base, pick, past)} :
           /\ r.file # file => ops < MaxCalls
           /\ ops' = IF r.file # file THEN ops + 1 ELSE ops
           /\ file' = r.file
           /\ last' = [NoMsgCall(file) EXCEPT !.op = "insert_msg", !.id = after,
                          !.data = data, !.res = r.res, !.first = r.first,
                          !.steps = r.steps, !.source = r.source,
                          !.grown = r.grown, !.new_base = new_base]
           /\ handed' = IF r.res.ok THEN handed \cup {r.res.val} ELSE handed
           /\ UNCHANGED <<deleted, fillers>>
           /\ UNCHANGED lockvars

\* MsgRepository::replace_msg on the file its slot points to.
replace_msg(t, id, data) ==
    LET index == msg_index_by_id(t, id) IN
    IF index.ok THEN replace_msg_by_index(t, index.val, data)
    ELSE [res |-> index, file |-> t]

MsgReplaceMsg ==
    /\ IsMsgFile(file)
    /\ CanCall
    /\ \E id \in MsgIds \cup handed, data \in MsgDataPtrs :
        /\ LET r == replace_msg(file, id, data)
           IN /\ r.file # file => ops < MaxCalls
              /\ ops' = IF r.file # file THEN ops + 1 ELSE ops
              /\ file' = r.file
              /\ last' = [NoMsgCall(file) EXCEPT !.op = "replace_msg", !.id = id,
                             !.data = data, !.res = r.res, !.first = r.res,
                             !.steps = <<"msg_index_by_id">>, !.source = r.file]
        /\ UNCHANGED <<handed, deleted, fillers>>
        /\ UNCHANGED lockvars

NextMsg == MsgGetMsg \/ MsgInsertMsg \/ MsgReplaceMsg

SpecMsg == InitMsg /\ [][NextMsg]_vars

\* Both repositories: a behaviour works on one file of either kind.
InitCalls == InitRepo \/ InitMsg

NextCalls == NextRepo \/ NextMsg

SpecCalls == InitCalls /\ [][NextCalls]_vars

(* ------------------------------ StaticLock ----------------------------- *)
(* The threads of the processes that call the two repositories. srw[r] is  *)
(* the SRWLOCK of repository r, table[r] the pointer and size the          *)
(* repository stores for one table (the file its message slot points to),  *)
(* threads[t] where thread t stands in its call: op the operation, ptr the *)
(* file it resolved, new the file its reallocation returned.               *)

\* Bounds: the threads, and the reallocations the allocator grants a table.
MaxThreads == 2

MaxGrowths == 2

Threads == 1..MaxThreads

Repositories == {"param", "msg"}

\* The operations of each repository: shared reads, exclusive writes, and
\* the writes that reallocate when their first attempt fails (every write
\* of ParamRepository, insert_msg of MsgRepository).
ReadCalls == {"get_row", "get_msg"}

WriteCalls == {"insert_row", "replace_row", "delete_row", "insert_msg", "replace_msg"}

GrowingCalls == WriteCalls \ {"replace_msg"}

RepositoryOf(op) ==
    IF op \in {"get_msg", "insert_msg", "replace_msg"} THEN "msg" ELSE "param"

Idle == [pc |-> "idle", op |-> "none", id |-> 0, ptr |-> 0, new |-> 0]

InitLock ==
    /\ srw = [r \in Repositories |-> [writer |-> 0, readers |-> {}]]
    /\ threads = [t \in Threads |-> Idle]
    /\ table = [r \in Repositories |-> [file |-> 1, file_size |-> 1]]
    /\ file = <<>>
    /\ last = <<>>
    /\ ops = 0
    /\ handed = {}
    /\ deleted = {}
    /\ fillers = {}
    /\ NoManager

UnchangedTables == UNCHANGED <<file, last, ops, handed, deleted, fillers, manager>>

\* The exports that take a signed row id.
IdChecked == {"get_row", "replace_row", "delete_row"}

\* pmod_get_row / pmod_replace_row / pmod_delete_row with a negative id going
\* on to the repository's call.
PmodNegativeId_Passed(t) ==
    \E op \in IdChecked :
        /\ threads[t].pc = "idle"
        /\ threads' = [threads EXCEPT ![t] =
                          [Idle EXCEPT !.pc = IF op = "get_row" THEN "shared"
                                              ELSE "exclusive",
                                       !.op = op, !.id = -1]]
        /\ UNCHANGED <<srw, table>>
        /\ UnchangedTables

\* pmod_get_row / pmod_replace_row / pmod_delete_row with a negative id:
\* `if table_name.is_null() || id < 0 { return None; }`
PmodNegativeId(t) ==
    \E op \in IdChecked :
        /\ threads[t].pc = "idle"
        /\ threads' = [threads EXCEPT ![t] =
                          [Idle EXCEPT !.pc = "returned", !.op = op, !.id = -1]]
        /\ UNCHANGED <<srw, table>>
        /\ UnchangedTables

\* The export has returned null to its caller.
PmodReturn(t) ==
    /\ threads[t].pc = "returned"
    /\ threads' = [threads EXCEPT ![t] = Idle]
    /\ UNCHANGED <<srw, table>>
    /\ UnchangedTables

\* StaticLock::read up to the guard's constructor: the repository pointer
\* is read and found non-null.
StaticRead(t) ==
    \E op \in ReadCalls :
        /\ threads[t].pc = "idle"
        /\ threads' = [threads EXCEPT ![t] = [Idle EXCEPT !.pc = "shared", !.op = op]]
        /\ UNCHANGED <<srw, table>>
        /\ UnchangedTables

\* StaticLock::write up to the guard's constructor.
StaticWrite(t) ==
    \E op \in WriteCalls :
        /\ threads[t].pc = "idle"
        /\ threads' = [threads EXCEPT ![t] = [Idle EXCEPT !.pc = "exclusive", !.op = op]]
        /\ UNCHANGED <<srw, table>>
        /\ UnchangedTables

\* StaticLockReadGuard::new: AcquireSRWLockShared returns once no thread
\* holds the lock exclusively.
AcquireShared(t) ==
    LET r == RepositoryOf(threads[t].op) IN
    /\ threads[t].pc = "shared"
    /\ srw[r].writer = 0
    /\ srw' = [srw EXCEPT ![r].readers = @ \cup {t}]
    /\ threads' = [threads EXCEPT ![t].pc = "resolve"]
    /\ UNCHANGED table
    /\ UnchangedTables

\* StaticLockWriteGuard::new with the lock taken shared.
AcquireShared_ForWrite(t) ==
    LET r == RepositoryOf(threads[t].op) IN
    /\ threads[t].pc = "exclusive"
    /\ srw[r].writer = 0
    /\ srw' = [srw EXCEPT ![r].readers = @ \cup {t}]
    /\ threads' = [threads EXCEPT ![t].pc = "resolve"]
    /\ UNCHANGED table
    /\ UnchangedTables

\* StaticLockWriteGuard::new: AcquireSRWLockExclusive returns once no thread
\* holds the lock.
AcquireExclusive(t) ==
    LET r == RepositoryOf(threads[t].op) IN
    /\ threads[t].pc = "exclusive"
    /\ srw[r].writer = 0 /\ srw[r].readers = {}
    /\ srw' = [srw EXCEPT ![r].writer = t]
    /\ threads' = [threads EXCEPT ![t].pc = "resolve"]
    /\ UNCHANGED table
    /\ UnchangedTables

\* find_table / file_by_category: the call reads the table's file pointer.
Resolve(t) ==
    /\ threads[t].pc = "resolve"
    /\ threads' = [threads EXCEPT ![t].ptr = table[RepositoryOf(threads[t].op)].file,
                                  ![t].pc = "attempt"]
    /\ UNCHANGED <<srw, table>>
    /\ UnchangedTables

\* The lookup of a read, or the first attempt of a write, on the resolved
\* file: it succeeds or fails, and a failed write that can grow goes on to
\* reallocate.
FirstAttempt(t) ==
    \E failed \in BOOLEAN :
        /\ threads[t].pc = "attempt"
        /\ threads' = [threads EXCEPT ![t].pc =
                          IF failed /\ threads[t].op \in GrowingCalls
                          THEN "reallocate" ELSE "release"]
        /\ UNCHANGED <<srw, table>>
        /\ UnchangedTables

\* clone_reallocate / grow_reallocate on the resolved file: a new file, or
\* an error that ends the call.
Reallocate(t) ==
    \E granted \in BOOLEAN :
        /\ threads[t].pc = "reallocate"
        /\ granted => threads[t].ptr <= MaxGrowths
        /\ threads' = [threads EXCEPT ![t].new = IF granted THEN threads[t].ptr + 1 ELSE 0,
                                      ![t].pc = IF granted THEN "swap" ELSE "release"]
        /\ UNCHANGED <<srw, table>>
        /\ UnchangedTables

\* table.file = new_file; table.file_size = new_size / *file = new_file
Swap(t) ==
    /\ threads[t].pc = "swap"
    /\ table' = [table EXCEPT ![RepositoryOf(threads[t].op)] =
                    [file |-> threads[t].new, file_size |-> threads[t].new]]
    /\ threads' = [threads EXCEPT ![t].ptr = threads[t].new, ![t].pc = "retry"]
    /\ UNCHANGED srw
    /\ UnchangedTables

\* The one retry on the new file.
Retry(t) ==
    /\ threads[t].pc = "retry"
    /\ threads' = [threads EXCEPT ![t].pc = "release"]
    /\ UNCHANGED <<srw, table>>
    /\ UnchangedTables

\* The guard's drop at the end of the call: ReleaseSRWLockShared /
\* ReleaseSRWLockExclusive.
Release(t) ==
    LET r == RepositoryOf(threads[t].op) IN
    /\ threads[t].pc = "release"
    /\ srw' = [srw EXCEPT ![r] = [writer |-> IF @.writer = t THEN 0 ELSE @.writer,
                                  readers |-> @.readers \ {t}]]
    /\ threads' = [threads EXCEPT ![t] = Idle]
    /\ UNCHANGED table
    /\ UnchangedTables

NextLock ==
    \E t \in Threads :
        \/ PmodNegativeId(t) \/ PmodReturn(t)
        \/ StaticRead(t) \/ StaticWrite(t)
        \/ AcquireShared(t) \/ AcquireExclusive(t)
        \/ Resolve(t) \/ FirstAttempt(t) \/ Reallocate(t) \/ Swap(t) \/ Retry(t)
        \/ Release(t)

SpecLock == InitLock /\ [][NextLock]_vars

\* Where a call stands between resolving the table and the end of its work.
Working == {"resolve", "attempt", "reallocate", "swap", "retry", "release"}

Reading(t, r) ==
    threads[t].op \in ReadCalls /\ RepositoryOf(threads[t].op) = r
    /\ threads[t].pc \in Working

Writing(t, r) ==
    threads[t].op \in WriteCalls /\ RepositoryOf(threads[t].op) = r
    /\ threads[t].pc \in Working

\* Between the reallocation and the swap: the new file exists and the
\* table still points to the old one.
MidReallocation(t, r) ==
    RepositoryOf(threads[t].op) = r /\ threads[t].pc \in {"reallocate", "swap"}

(* --------------------- claims on the repository layer ------------------ *)

WriteOps == {"insert_row", "replace_row", "delete_row"}

\* C14: a repository write reallocates and swaps the table only when its
\* first attempt reported NeedsRealloc; when the first attempt fails with
\* any other kind, that error is the call's result and the stored table
\* pointer and size are the ones from before the call.
C14_OnlyNeedsReallocGrows ==
    (/\ last.op \in WriteOps
     /\ ~last.first.ok
     /\ last.first # Err("NeedsRealloc"))
        => /\ last.steps = <<last.op>>
           /\ last.res = last.first
           /\ file.base = last.before.base
           /\ last.file_size = last.file_size_before

\* C15: with an allocator that does not fail, every ParamRepository::insert_row
\* call on a table below the maximum row count returns Ok with an id that no
\* row of the table had before the call.
C15_InsertConverges ==
    (/\ last.op = "insert_row"
     /\ OldLen(last.before) < MAX_ROW_COUNT
     /\ (Len(last.steps) > 1 => last.new_base # 0))
        => /\ last.res.ok
           /\ ~find_row(last.before, last.res.val).ok

C17_OneReallocationOneRetry ==
    /\ last.op \in WriteOps
          => /\ last.steps \in {<<last.op>>, <<last.op, "clone_reallocate">>,
                                <<last.op, "clone_reallocate", last.op>>}
             /\ Len(last.steps) = 3
                   => /\ last.res = Attempt(last.op, last.cloned, last.id, last.data).res
                      /\ file = Attempt(last.op, last.cloned, last.id, last.data).file
    /\ last.op = "insert_msg"
          => /\ last.steps \in {<<"try_insert_new_after">>,
                                <<"try_insert_new_after", "grow_reallocate">>,
                                <<"try_insert_new_after", "grow_reallocate",
                                  "try_insert_new_after">>}
             /\ Len(last.steps) = 3
                   => \E pick \in SearchPicks :
                         LET retry == try_insert_new_after(last.grown,
                                          AnchorOf(last.id), last.data, pick)
                         IN last.res = retry.res /\ file = retry.file

C17_Witness ==
    /\ last.op \in WriteOps
    /\ Len(last.steps) = 3
    /\ ~last.res.ok

\* C16: a write holds its repository's lock exclusively and a read holds it
\* shared from before the table is resolved until the call's work is done;
\* so no two reallocations of one table overlap, no reader works between a
\* reallocation and its swap, and the file a call works on is the one the
\* table points to.
C16_LockScope ==
    \A r \in Repositories, t \in Threads :
        /\ Writing(t, r) => srw[r].writer = t /\ srw[r].readers = {}
        /\ Reading(t, r) => t \in srw[r].readers /\ srw[r].writer = 0
        /\ MidReallocation(t, r)
              => \A u \in Threads \ {t} :
                    ~MidReallocation(u, r) /\ ~Reading(u, r) /\ ~Writing(u, r)
        /\ (Reading(t, r) \/ Writing(t, r)) /\ threads[t].pc \in {"attempt", "reallocate", "retry"}
              => threads[t].ptr = table[r].file

\* A writer stands between its reallocation and the swap while another
\* thread of the same repository waits for the lock.
C16_Witness ==
    \E t, u \in Threads :
        /\ t # u
        /\ threads[t].pc = "swap"
        /\ threads[u].pc \in {"shared", "exclusive"}
        /\ RepositoryOf(threads[u].op) = RepositoryOf(threads[t].op)

(* ----------------------- claims on the message table ------------------ *)

\* The file grow_reallocate returned inside the last insert_msg call.
Grown == Len(last.steps) = 3

\* C18: after an insertion of non-null data returned Some(id), lookup of id
\* returns exactly data, on the file as loaded and on a grown file.
C18_MsgRoundTrip ==
    (last.op = "insert_msg" /\ last.data # 0 /\ last.res.ok)
        => get_msg(file, last.res.val) = Some(last.data)

\* The groups of t that hold the anchor and a hole at an id above it.
GroupsWithHoleAbove(t, after) ==
    {k \in 1..t.group_count :
        /\ t.groups[k].first_id <= after /\ after <= t.groups[k].last_id
        /\ \E id \in (after + 1)..t.groups[k].last_id :
              t.offsets[t.groups[k].offset + (id - t.groups[k].first_id) + 1] = 0}

\* C19: when the anchor lies inside a group that has a hole at an id above
\* the anchor, the insertion succeeds without growth, returns an id of that
\* group above the anchor, and lookup of that id returns the data.
C19_InsertInsideGroup ==
    (/\ last.op = "insert_msg" /\ last.id # 0 /\ last.data # 0
     /\ GroupsWithHoleAbove(last.before, last.id) # {})
        => /\ last.res.ok
           /\ last.steps = <<"try_insert_new_after">>
           /\ \E k \in GroupsWithHoleAbove(last.before, last.id) :
                 /\ last.res.val > last.id
                 /\ last.res.val <= last.before.groups[k].last_id
           /\ get_msg(file, last.res.val) = Some(last.data)

\* The ids the groups of t cover.
CoveredIds(t) ==
    UNION {t.groups[k].first_id..t.groups[k].last_id : k \in 1..t.group_count}

\* C20: every id whose lookup returns a message on the source file returns
\* the same pointer on the file grow_reallocate made of it, for every anchor.
C20_GrowthKeepsMessages ==
    (last.op = "insert_msg" /\ Grown)
        => \A id \in CoveredIds(last.source) :
              get_msg(last.source, id).ok
                 => get_msg(last.grown, id) = get_msg(last.source, id)

\* The slots of the offsets array a group covers.
SlotsOfGroup(g) == g.offset..(g.offset + (g.last_id - g.first_id))

\* Groups strictly ascending by first_id with pairwise disjoint id ranges.
SortedDisjoint(t) ==
    \A i, j \in 1..t.group_count :
        i < j => /\ t.groups[i].first_id <= t.groups[i].last_id
                 /\ t.groups[i].last_id < t.groups[j].first_id

\* No two groups cover the same slot.
DisjointSlots(t) ==
    \A i, j \in 1..t.group_count :
        i # j => SlotsOfGroup(t.groups[i]) \cap SlotsOfGroup(t.groups[j]) = {}

\* C21: the file grow_reallocate makes of a file with sorted, disjoint
\* groups has groups strictly ascending by first_id with disjoint id ranges,
\* and no two of its groups cover the same slot of the offsets array.
C21_GrownGroupsDisjoint ==
    (last.op = "insert_msg" /\ Grown /\ SortedDisjoint(last.source)
        /\ DisjointSlots(last.source))
        => SortedDisjoint(last.grown) /\ DisjointSlots(last.grown)

\* C22: insert_msg with non-null data on a file whose message capacity is
\* below the maximum, the allocator not failing, returns an id that held no
\* message before (growing once when there is no hole).
C22_InsertMsgSucceeds ==
    (/\ last.op = "insert_msg" /\ last.data # 0
     /\ last.before.msg_count < MAX_MSG_COUNT
     /\ (Len(last.steps) >= 2 => last.new_base # 0))
        => /\ last.res.ok
           /\ ~get_msg(last.before, last.res.val).ok

\* The groups of t that cover id.
GroupsCovering(t, id) ==
    {k \in 1..t.group_count : t.groups[k].first_id <= id /\ id <= t.groups[k].last_id}

\* What a lookup of id has to return on a file with sorted, disjoint groups:
\* the pointer in the slot of id, none when no group covers id or the slot
\* is a hole.
StoredMsg(t, id) ==
    IF GroupsCovering(t, id) = {} THEN None
    ELSE LET g == t.groups[CHOOSE k \in GroupsCovering(t, id) : TRUE]
         IN msg_data_by_index(t, g.offset + (id - g.first_id))

\* C23: on a file with sorted, disjoint groups (none included) get_msg(id)
\* returns the pointer stored for id when a group covers id and its slot is
\* no hole, and none otherwise, without panicking.
C23_MsgLookup ==
    (last.op = "get_msg" /\ SortedDisjoint(last.before) /\ DisjointSlots(last.before))
        => last.res = StoredMsg(last.before, last.id)

\* The slot of id in a file whose groups cover id.
SlotOf(t, id) ==
    LET g == t.groups[CHOOSE k \in GroupsCovering(t, id) : TRUE]
    IN g.offset + (id - g.first_id)

\* The pointer a caller passed as data, as a lookup returns it.
AsPointer(data) == IF data = 0 THEN None ELSE Some(data)

\* C24: for an id covered by a group, replace_msg(id, data) returns the
\* pointer stored for id before (none for a hole), a lookup of id afterwards
\* returns data (none after a delete, and a second delete returns none), and
\* no slot but that of id and no group changes.
C24_ReplaceMsg ==
    (/\ last.op = "replace_msg"
     /\ SortedDisjoint(last.before) /\ DisjointSlots(last.before)
     /\ GroupsCovering(last.before, last.id) # {})
        => /\ last.res = StoredMsg(last.before, last.id)
           /\ get_msg(file, last.id) = AsPointer(last.data)
           /\ last.data = 0 => replace_msg(file, last.id, 0).res = None
           /\ file.groups = last.before.groups
           /\ file.msg_count = last.before.msg_count
           /\ \A i \in 1..file.msg_count :
                 i # SlotOf(last.before, last.id) + 1
                     => file.offsets[i] = last.before.offsets[i]

\* A live message was deleted.
C24_Witness ==
    /\ last.op = "replace_msg"
    /\ SortedDisjoint(last.before) /\ DisjointSlots(last.before)
    /\ GroupsCovering(last.before, last.id) # {}
    /\ last.res.ok
    /\ last.data = 0
    /\ file.msg_count > 1

(* --------------------------- default anchors --------------------------- *)
(* Managers of several file capacities and, for each, the file of one      *)
(* category: as the game loads it, or as earlier insert_msg calls with the  *)
(* default anchor have left it (grown once, some of the new ids given out). *)

\* File capacities and categories <<capacity, category>>: a category at or
\* past the capacity, few and many files, first and later categories.
AnchorLayouts ==
    {<<0, 0>>, <<3, 0>>, <<3, 3>>, <<300, 0>>, <<300, 1>>, <<300, 100>>,
     <<300, 300>>, <<2 ^ 30, 0>>, <<2 ^ 30, 1>>, <<2 ^ 30, 2>>}

AnchorManagers == {[file_capacity |-> l[1], category |-> l[2]] : l \in AnchorLayouts}

\* The most ids earlier calls have given out of a file.
MaxGiven == 2

RECURSIVE GiveOut(_, _, _)
GiveOut(t, anchor, n) ==
    IF n = 0 THEN t
    ELSE GiveOut(try_insert_new_after(t, anchor, 1000, "low").file, anchor, n - 1)

LoadedAnchorFiles ==
    {GameMsgFile(<< <<1, 2>> >>, live, m) : live \in {{1}, {1, 2}}, m \in MaxGroupSizes}

AnchorFiles(m) ==
    LET anchor == new_after(m.file_capacity, m.category) IN
    IF ~anchor.ok THEN LoadedAnchorFiles
    ELSE LoadedAnchorFiles
         \cup {GiveOut(grow_reallocate(t, anchor.val, 8192, "low", "kept").file,
                       anchor.val, n) :
               t \in LoadedAnchorFiles, n \in 0..MaxGiven}

InitAnchors ==
    /\ manager \in AnchorManagers
    /\ file \in AnchorFiles(manager)
    /\ last = NoMsgCall(file)
    /\ ops = 0
    /\ handed = {}
    /\ deleted = {}
    /\ fillers = {}
    /\ NoThreads

SpecAnchors == InitAnchors /\ [][NextMsg]_vars

\* C25: new_after(c) is defined exactly for the categories c below the file
\* capacity, is at least 999,999,999 and smaller than new_after(c + 1), and
\* an id insert_msg hands out for category c with the default anchor lies in
\* [new_after(c), new_after(c + 1)) (at or above new_after(c) for the last
\* category).
C25_DefaultAnchorRanges ==
    LET C == manager.file_capacity
        c == manager.category
        anchor == new_after(C, c)
    IN /\ anchor.ok <=> c < C
       /\ anchor.ok => anchor.val >= MAX_BASE
       /\ c + 1 < C => new_after(C, c + 1).val > anchor.val
       /\ (last.op = "insert_msg" /\ last.id = 0 /\ last.res.ok)
             => /\ anchor.ok
                /\ last.res.val >= anchor.val
                /\ c + 1 < C => last.res.val < new_after(C, c + 1).val

(* ----------------------------- negative ids ---------------------------- *)
(* The row table under the engine's calls, or the threads calling the      *)
(* exports: a behaviour is one or the other.                               *)

InitExports == Init \/ InitLock

NextExports == (threads = <<>> /\ Next) \/ (threads # <<>> /\ NextLock)

SpecExports == InitExports /\ [][NextExports]_vars

\* The thread holds the lock of a repository or waits for it.
AtLock(t) ==
    \/ threads[t].pc \in {"shared", "exclusive"}
    \/ \E r \in Repositories : srw[r].writer = t \/ t \in srw[r].readers

\* C26: find_row, replace_row and delete_row with a negative id on a
\* capacity-bearing table return NegativeId and leave the table as it was,
\* and a thread in pmod_get_row, pmod_replace_row or pmod_delete_row with a
\* negative id has returned null and neither holds nor waits for a lock.
C26_NegativeIdRejected ==
    /\ (/\ threads = <<>>
        /\ last.op \in {"find_row", "replace_row", "delete_row"}
        /\ last.id < 0
        /\ CapacityBearing(last.before))
           => last.res = Err("NegativeId") /\ file = last.before
    /\ \A t \in DOMAIN threads :
          threads[t].id < 0 => threads[t].pc = "returned" /\ ~AtLock(t)

\* A thread got null for a negative row id while another thread holds the
\* parameter repository's lock exclusively.
C26_Witness ==
    \E t, u \in DOMAIN threads :
        /\ threads[t].id < 0
        /\ threads[t].op = "delete_row"
        /\ threads[t].pc = "returned"
        /\ srw["param"].writer = u

(* -------------------------------- DLHash ------------------------------- *)
(* dl_hash over the items of a string. A u32 is kept as its two 16-bit     *)
(* halves [hi, lo], so that wrapping_mul and wrapping_add keep their width. *)

\* The longest string hashed.
MaxStrLen == 2

\* Items of the strings: 'A', 'Z', 'a', 'z', '\' and '/'.
HashChars == {65, 90, 97, 122, 92, 47}

\* result.wrapping_mul(137)
WrappingMul137(r) ==
    LET lo == r.lo * 137
    IN [hi |-> (r.hi * 137 + lo \div 65536) % 65536, lo |-> lo % 65536]

\* result.wrapping_add(ch) for an item below 2^16
WrappingAddCh(r, ch) ==
    LET lo == r.lo + ch
    IN [hi |-> (r.hi + lo \div 65536) % 65536, lo |-> lo % 65536]

\* The loop body's item with nothing folded to lower case.
HashItem_Exact(ch) == IF ch = 92 THEN 47 ELSE ch

\* The loop body's item: folded to lower case, or the slash for a backslash.
HashItem(ch) == IF ch <= 90 THEN ch + 32 ELSE IF ch = 92 THEN 47 ELSE ch

\* dl_hash: the loop over the items of i, from result.
RECURSIVE dl_hash(_, _)
dl_hash(i, result) ==
    IF i = <<>> THEN result
    ELSE dl_hash(Tail(i), WrappingAddCh(WrappingMul137(result), HashItem(Head(i))))

\* DLHash::strhash
strhash(str) == dl_hash(str, [hi |-> 0, lo |-> 0])

HashStrings == UNION {[1..n -> HashChars] : n \in 0..MaxStrLen}

\* Two strings are given; StrHash hashes both.
InitHash ==
    /\ \E a, b \in HashStrings :
          last = [op |-> "none", a |-> a, b |-> b,
                  hash_a |-> [hi |-> 0, lo |-> 0], hash_b |-> [hi |-> 0, lo |-> 0]]
    /\ file = <<>>
    /\ ops = 0
    /\ handed = {}
    /\ deleted = {}
    /\ fillers = {}
    /\ NoThreads
    /\ NoManager

StrHash ==
    /\ last.op = "none"
    /\ last' = [last EXCEPT !.op = "strhash", !.hash_a = strhash(last.a),
                            !.hash_b = strhash(last.b)]
    /\ UNCHANGED <<file, ops, handed, deleted, fillers>>
    /\ UNCHANGED lockvars

NextHash == StrHash

SpecHash == InitHash /\ [][NextHash]_vars

\* The string with its upper-case ASCII letters made lower-case.
AsciiLowercase(str) ==
    [k \in 1..Len(str) |-> IF 65 <= str[k] /\ str[k] <= 90 THEN str[k] + 32 ELSE str[k]]

\* C27: two strings whose ASCII-lowercased forms are equal get the same
\* 32-bit strhash.
C27_HashIgnoresCase ==
    (last.op = "strhash" /\ AsciiLowercase(last.a) = AsciiLowercase(last.b))
        => last.hash_a = last.hash_b

\* Two different spellings of one two-letter string have been hashed.
C27_Witness ==
    /\ last.op = "strhash"
    /\ Len(last.a) = 2
    /\ last.a # last.b
    /\ AsciiLowercase(last.a) = AsciiLowercase(last.b)
    /\ last.hash_a = last.hash_b

(* ---------------------- slots and the free list ------------------------ *)

\* The slot at LUT position p (0-based) is occupied: its index is its own
\* position, and the descriptor there carries its id.
SlotOccupied(t, p) ==
    LET e == raw_lut(t)[p + 1]
    IN e.index = p /\ LargeDescriptor(t, p).id = e.id

\* The slot at LUT position p is free: its index is the complement of the
\* position of another free slot, or of the end marker.
SlotFree(t, p) ==
    LET lut == raw_lut(t)
        next == Not(lut[p + 1].index)
    IN /\ lut[p + 1].index < 0
       /\ \/ next = I32_MAX
          \/ /\ next \in 0..(Len(lut) - 2)
             /\ next # p
             /\ lut[next + 1].index < 0

\* C28: in a table that came out of clone_reallocate, and after any calls of
\* insert_row, replace_row and delete_row on it, every LUT entry but the
\* sentinel is an occupied slot or a free slot.
C28_SlotEncoding ==
    Reallocated(file)
        => \A p \in 0..(Len(raw_lut(file)) - 1) :
              raw_lut(file)[p + 1].id # U32_MAX
                  => SlotOccupied(file, p) \/ SlotFree(file, p)

\* C29: on a capacity-bearing table, the insert_row that directly follows a
\* delete_row(id) that returned Ok returns that id, and after two deletes the
\* next two inserts return the two ids in the reverse order of the deletes.
C29_FreeListLifo ==
    (last.op = "delete_row" /\ last.res.ok /\ CapacityBearing(last.before))
        => \A data \in DataPtrs :
              /\ insert_row(file, data).res = Ok(last.id)
              /\ \A id2 \in ProbeIds :
                    LET d2 == delete_row(file, id2)
                        i1 == insert_row(d2.file, data)
                        i2 == insert_row(i1.file, data)
                    IN d2.res.ok => i1.res = Ok(id2) /\ i2.res = Ok(last.id)

\* The ids of the rows find_row finds in t.
SurvivingIds(t) == {id \in ListedIds(t) : id >= 0 /\ find_row(t, id).ok}

\* The 0-based positions of the LUT entries of t other than the sentinel.
Slots(t) == {p \in 0..(Len(raw_lut(t)) - 1) : raw_lut(t)[p + 1].id # U32_MAX}

\* C30: the table clone_reallocate returned has exactly as many slots as
\* the new capacity (the old one without grow, max(2 * old, 32) clamped to
\* the format's maximum with grow), every slot that does not hold a
\* surviving id is on the free list, and the free slots number the new
\* capacity less the surviving ids.
C30_CloneExposesCapacity ==
    (last.op = "clone_reallocate" /\ last.res.ok)
        => LET capacity == Min(NewLen(OldLen(last.before), last.grow), MAX_ROW_COUNT)
               free == Range(FreeWalk(file).path)
           IN /\ Cardinality(Slots(file)) = capacity
              /\ \A p \in Slots(file) :
                    raw_lut(file)[p + 1].id \notin SurvivingIds(last.before)
                        => p \in free
              /\ Cardinality(free)
                     = capacity - Cardinality(SurvivingIds(last.before))

(* ------------------- source entries of a reallocation ------------------ *)

\* The source LUT entries clone_reallocate walks: &self.lut()[..old_len].
WalkedEntries(t) == SubSeq(raw_lut(t), 1, Max(OldLen(t), 0))

\* The index of the entry is no position of the descriptor array of t.
InvalidIndex(t, entry) == entry.index < 0 \/ entry.index >= Len(t.desc)

\* The loop's iteration for the entry writes nothing, whatever came before
\* (prev_id apart).
Dropped(t, entry) ==
    LET off == row_descriptor_offset(t)
        acc == [CloneStart(0) EXCEPT !.prev_id = Not(entry.id)]
    IN off.ok => CloneEntry(t, off.val, 0, acc, entry) = acc

\* Source tables with one LUT entry whose index is no descriptor position:
\* negative, the descriptor count, or past every row count of the format.
BadIndexes(n) == {-1, n, I32_MAX}

InitBadIndex ==
    /\ \E S \in SUBSET IdPool, l \in GameLayouts, oob \in OobDescriptors :
          /\ Cardinality(S) \in 1..MaxRows
          /\ \E k \in 1..Cardinality(S), bad \in BadIndexes(Cardinality(S)) :
                file = [GameTable(SortedSeq(S), l[1], l[2], oob)
                           EXCEPT !.lutmem[k].index = bad]
    /\ last = NoCall(file)
    /\ ops = 0
    /\ handed = {}
    /\ deleted = {}
    /\ fillers = {}
    /\ NoThreads
    /\ NoManager

SpecBadIndex == InitBadIndex /\ [][Next]_vars

\* C31: clone_reallocate drops every source LUT entry whose index is
\* negative or at or beyond the source's descriptor count, so that it reads
\* no descriptor outside the source's descriptor array.
C31_InvalidEntriesDropped ==
    (last.op = "clone_reallocate" /\ last.res.ok)
        => \A k \in 1..Len(WalkedEntries(last.before)) :
              InvalidIndex(last.before, WalkedEntries(last.before)[k])
                  => Dropped(last.before, WalkedEntries(last.before)[k])

\* The id the last row operation was applied to: the id asked for, or for
\* insert_row the id of the entry at the head of the free list (-1: none).
TouchedId ==
    IF last.op = "insert_row"
    THEN LET lut == raw_lut(last.before)
             head == lut[Len(lut)].index
         IN IF head >= 0 /\ head < Len(lut) - 1 THEN lut[head + 1].id ELSE -1
    ELSE last.id

HolesFrom(t, anchor) ==
    {id \in UNION {t.groups[k].first_id..t.groups[k].last_id : k \in 1..t.group_count} :
        id >= anchor /\ ~StoredMsg(t, id).ok}

\* C33: on a file with sorted, disjoint groups try_insert_new_after(anchor,
\* data) returns none exactly when no group at or after the anchor has a
\* hole; otherwise it returns the lowest such hole's id, stores data in its
\* slot and changes no other slot.
C33_FillsLowestHole ==
    (/\ last.op = "insert_msg" /\ last.data # 0
     /\ SortedDisjoint(last.before) /\ DisjointSlots(last.before))
        => LET anchor == AnchorOf(last.id)
               holes == HolesFrom(last.before, anchor)
               r == try_insert_new_after(last.before, anchor, last.data, "low")
           IN IF holes = {} THEN r.res = None /\ r.file = last.before
              ELSE LET id == CHOOSE h \in holes : \A g \in holes : h <= g
                   IN /\ r.res = Some(id)
                      /\ StoredMsg(r.file, id) = AsPointer(last.data)
                      /\ r.file.groups = last.before.groups
                      /\ \A i \in 1..r.file.msg_count :
                            i # SlotOf(last.before, id) + 1
                                => r.file.offsets[i] = last.before.offsets[i]

\* C34: an id insert_msg returns (from its first attempt or from the one on
\* the grown file) held no message right before the call, and a second
\* insert with non-null data that succeeds right after one with non-null
\* data returns another id.
C34_InsertedIdsAreFresh ==
    (last.op = "insert_msg" /\ last.res.ok)
        => /\ ~get_msg(last.before, last.res.val).ok
           /\ last.data # 0
                 => \A after \in MsgAnchors \ {0}, pick \in MsgSearchPicks(file) :
                       LET second == try_insert_new_after(file, after, 1000, pick)
                       IN second.res.ok => second.res.val # last.res.val

\* The groups the file's allocation has room for behind the header.
GroupRoom(t) == (t.file_size - MSG_HEADER_SIZE) \div MSG_GROUP_SIZE

\* Files the game loads with more groups than MaxGroups and a gap of one id
\* between each two of them.
GapRanges == {<< <<1, 2>>, <<4, 4>>, <<6, 8>> >>,
              << <<1, 1>>, <<3, 3>>, <<5, 5>>, <<7, 7>> >>}

GapMsgFiles ==
    UNION {{GameMsgFile(ranges, live, m) :
               live \in LiveSets(ranges), m \in MaxGroupSizes} :
           ranges \in GapRanges}

InitGaps ==
    /\ file \in GapMsgFiles
    /\ last = NoMsgCall(file)
    /\ ops = 0
    /\ handed = {}
    /\ deleted = {}
    /\ fillers = {}
    /\ NoThreads
    /\ manager = GameManager

SpecGaps == InitGaps /\ [][NextMsg]_vars

\* C35: grow_reallocate writes no more groups than the new_group_count it
\* allocated room for, and its count of groups left to insert never falls
\* below zero (no overflow panic, no group count above the room).
C35_GrowthStaysInRoom ==
    (last.op = "insert_msg" /\ Len(last.steps) >= 2 /\ last.new_base # 0)
        => /\ last.res # Err("Panic")
           /\ Grown => /\ Len(last.grown.groups) <= GroupRoom(last.grown)
                       /\ last.grown.group_count <= GroupRoom(last.grown)

\* C36: a call of find_row, insert_row, replace_row or delete_row that
\* returns an error leaves the table as it was before the call: the LUT with
\* its free-list links and its sentinel, and the descriptors.
C36_ErrorsLeaveTableUnchanged ==
    (last.op \in {"find_row", "insert_row", "replace_row", "delete_row"}
        /\ ~last.res.ok)
        => file = last.before

\* The string with its backslashes written as forward slashes.
ForwardSlashes(str) ==
    [k \in 1..Len(str) |-> IF str[k] = 92 THEN 47 ELSE str[k]]

\* C37: two strings that differ only in having a backslash where the other
\* has a forward slash get the same hash.
C37_BackslashIsSlash ==
    (last.op = "strhash" /\ ForwardSlashes(last.a) = ForwardSlashes(last.b))
        => last.hash_a = last.hash_b

(* ----------------------------- DLHashString ---------------------------- *)
(* One DLHashString of the game: file.string its contents, file.value and  *)
(* file.has_value the two atomics of its DLStringHash. threads[t] is where *)
(* reader t stands in DLHashString::strhash. write takes &mut self, so it  *)
(* runs only while no reader is inside strhash.                            *)

\* Bounds: the readers, and the writes to the string.
MaxReaders == 2

MaxWrites == 1

Readers == 1..MaxReaders

\* The contents the string takes.
StringContents == {<<>>, <<97>>, <<65, 47>>, <<122, 92>>}

ZeroHash == [hi |-> 0, lo |-> 0]

\* A string as the game holds it: its hash cached, or no hash cached and the
\* value field holding zero or the hash of earlier contents.
GameHashStrings ==
    {[string |-> str, value |-> strhash(str), has_value |-> TRUE] :
        str \in StringContents}
    \cup {[string |-> str, value |-> v, has_value |-> FALSE] :
             str \in StringContents,
             v \in {ZeroHash} \cup {strhash(old) : old \in StringContents}}

ReaderIdle == [pc |-> "idle"]

InitString ==
    /\ file \in GameHashStrings
    /\ threads = [t \in Readers |-> ReaderIdle]
    /\ last = [op |-> "none", thread |-> 0, res |-> ZeroHash, string |-> <<>>]
    /\ ops = 0
    /\ handed = {}
    /\ deleted = {}
    /\ fillers = {}
    /\ srw = <<>>
    /\ table = <<>>
    /\ NoManager

\* DLHashString::write: the contents replaced, then has_value cleared.
DLHashString_write ==
    /\ \A t \in Readers : threads[t].pc = "idle"
    /\ ops < MaxWrites
    /\ \E s \in StringContents :
          file' = [file EXCEPT !.string = s, !.has_value = FALSE]
    /\ ops' = ops + 1
    /\ last' = [last EXCEPT !.op = "write", !.thread = 0]
    /\ UNCHANGED <<handed, deleted, fillers, srw, threads, table, manager>>

\* DLHashString::strhash, has_value.fetch_or(true): the flag is set, and the
\* branch is taken when it was set before.
DLHashString_fetch_or(t) ==
    /\ threads[t].pc = "idle"
    /\ threads' = [threads EXCEPT ![t] =
                      [pc |-> IF file.has_value THEN "store" ELSE "load"]]
    /\ file' = [file EXCEPT !.has_value = TRUE]
    /\ UNCHANGED <<last, ops, handed, deleted, fillers, srw, table, manager>>

\* The branch: the hash of the contents is computed and stored to value.
DLHashString_store(t) ==
    /\ threads[t].pc = "store"
    /\ file' = [file EXCEPT !.value = strhash(file.string)]
    /\ threads' = [threads EXCEPT ![t] = [pc |-> "load"]]
    /\ UNCHANGED <<last, ops, handed, deleted, fillers, srw, table, manager>>

\* value.load: what strhash returns.
DLHashString_load(t) ==
    /\ threads[t].pc = "load"
    /\ last' = [op |-> "strhash", thread |-> t, res |-> file.value,
                string |-> file.string]
    /\ threads' = [threads EXCEPT ![t] = ReaderIdle]
    /\ UNCHANGED <<file, ops, handed, deleted, fillers, srw, table, manager>>

NextString ==
    \/ DLHashString_write
    \/ \E t \in Readers : DLHashString_fetch_or(t)
    \/ \E t \in Readers : DLHashString_store(t)
    \/ \E t \in Readers : DLHashString_load(t)

SpecString == InitString /\ [][NextString]_vars

\* C38: DLHashString::strhash returns the DLHash of the contents the string
\* has at the call: on the first call with no hash cached, on later calls,
\* on the first call after a write, and with several readers at once.
C38_HashOfCurrentContents ==
    last.op = "strhash" => last.res = strhash(last.string)

\* C39: for every capacity clone_reallocate produces, the offset at which it
\* writes the new LUT is the offset at which raw_lut reads it (the stored
\* size rounded up to a multiple of 16), and the LUT as read ends inside the
\* allocation (new_len + 1 entries behind the offset written).
C39_LutReadWhereWritten ==
    (last.op = "clone_reallocate" /\ last.res.ok)
        => LET new_len == NewLen(OldLen(last.before), last.grow)
               read_at == Align16(file.size)
           IN /\ file.lut_at = read_at
              /\ read_at + Len(raw_lut(file)) * LUT_ENTRY_SIZE
                    <= file.lut_at + (new_len + 1) * LUT_ENTRY_SIZE

====
